---- MODULE Spec2Model ----
(***************************************************************************)
(* Verification model of kadavilrahul/scraper_and_csv_processor.            *)
(*                                                                         *)
(* The repository is a set of independent scripts.  Each tool is modelled  *)
(* by its own group of variables and its own specification:                *)
(*   SpecSlug   slug_deduplicator/fix_duplicate_slugs.py                   *)
(*   SpecPrice  the four price parsers (process_price / clean_price)       *)
(*   SpecDedup  excel_csv_deduplicator/main.py (FileDeduplicator)          *)
(*   SpecScrape the keyword loops of the scraper main() functions          *)
(*   SpecClean  csv_cleaner/clean_encoded_slugs.py                         *)
(*   SpecCleanCsv csv_cleaner/clean_csv.py                                 *)
(*   SpecEbaySearch EbayScraper.search (ebay_scraper/main.py)              *)
(*   SpecAliSearch  AliExpressFixedScraper.search (aliexpress_scraper)     *)
(* SpecDrop, SpecSlugTools, SpecColumnTools and SpecFileTools join the    *)
(* tools a statement is about.                                             *)
(* A string is a sequence of one-character strings, so that the regular    *)
(* expressions, replace(), split() and float() of the code are computed    *)
(* character by character.                                                 *)
(***************************************************************************)
EXTENDS Integers, Sequences, FiniteSets, TLC

VARIABLES
    script,            \* the script this process runs (python <script>)
    \* ---- slug_deduplicator/fix_duplicate_slugs.py
    input_file,        \* rows of the CSV passed as input_file (header first)
    output_file,       \* rows of the CSV written to output_file, or NoFile
    stats,             \* the dictionary find_and_fix_duplicates returns
    duplicates_fixed,  \* the list duplicates_fixed of the last run
    runs,              \* number of completed find_and_fix_duplicates calls
    input_kind,        \* what is at the path input_file: "file", "missing", ...
    sl_written,        \* the files the last run created
    sl_exit,           \* exit status of the last run, Running before it ends
    \* ---- the price parsers
    arg_price_str,     \* the argument price_str of the call
    arg_multiplier,    \* the argument price_multiplier of the call
    price_fn,          \* the parser that was called, or None before the call
    price_out,         \* the string the call returned
    \* ---- excel_csv_deduplicator/main.py
    fs,                \* the folder: path -> file, or Absent
    dd_pc,             \* position in remove_duplicates
    newest_file,       \* the file to deduplicate
    older_files,       \* the files loaded as reference
    rd_combined_data,  \* combined_data of remove_duplicates
    removal_stats,     \* the statistics process_newest_file returned
    self_df_final,     \* the attribute self.df_final
    dd_exit,           \* exit status of the process, Running while it runs
    \* ---- the keyword loop of ebay_scraper/main.py and aliexpress_scraper/main.py
    keywords,          \* the non-empty keywords of Keywords.csv
    total_results_limit,
    kw_pos,            \* index of the keyword the for loop is at
    unique_products,   \* the dict unique_products, in insertion order
    category_descriptions, \* the dict category_descriptions, in insertion order
    first_seen,        \* per title, the first item the inner loop met, in order
    desc_calls,        \* the keywords generate_category_descriptions was called with
    sc_pc,             \* "loop", "write" or "done"
    output_csv,        \* the rows written to output.csv
    \* ---- EbayScraper.search (ebay_scraper/main.py)
    es_pc,             \* "desktop", "mobile" or "returned"
    es_log,            \* the requests made: [site, response], in order
    es_result,         \* the list search returned
    \* ---- AliExpressFixedScraper.search (aliexpress_scraper/main.py)
    al_pc,             \* "setup", "urls", "returned" or "raised"
    drivers,           \* the WebDrivers created: "open" or "quit", in order
    self_driver,       \* self.driver: an index of drivers, 0 for None
    max_results_per_keyword,
    url_index,         \* index of the URL pattern the for loop is at
    all_items,         \* len(all_items)
    al_calls,          \* number of calls of search begun
    al_returned,       \* len of the list the last call returned
    \* ---- csv_cleaner/clean_encoded_slugs.py
    cl_input,          \* the file at the path input_file, or Absent
    cl_output,         \* the rows written to output_file, or NoFile
    cl_stats,          \* the dictionary process_csv returned
    cl_pc,             \* "start", then how process_csv ended
    cl_exit,           \* exit status of the process, Running while it runs
    \* ---- csv_cleaner/clean_csv.py
    cc_kind,           \* what is at the path input_file: "file", "missing", ...
    cc_input,          \* the rows csv.reader yields from input_file
    cc_output,         \* the rows written to output_file, or NoFile
    cells_changed,     \* the counter cells_changed of the last run
    cc_runs,           \* number of completed clean_csv_file calls
    cc_exit            \* exit status of the last run, Running before it ends

slugVars == <<input_file, output_file, stats, duplicates_fixed, runs, input_kind,
              sl_written, sl_exit>>

priceVars == <<arg_price_str, arg_multiplier, price_fn, price_out>>

dedupVars == <<fs, dd_pc, newest_file, older_files, rd_combined_data, removal_stats,
               self_df_final, dd_exit>>

loopVars == <<keywords, total_results_limit, kw_pos, unique_products,
              category_descriptions, first_seen, desc_calls, sc_pc, output_csv>>

ebaySearchVars == <<es_pc, es_log, es_result>>

aliSearchVars == <<al_pc, drivers, self_driver, max_results_per_keyword, url_index,
                   all_items, al_calls, al_returned>>

scrapeVars == <<loopVars, ebaySearchVars, aliSearchVars>>

cleanVars == <<cl_input, cl_output, cl_stats, cl_pc, cl_exit,
               cc_kind, cc_input, cc_output, cells_changed, cc_runs, cc_exit>>

vars == <<script, slugVars, priceVars, dedupVars, scrapeVars, cleanVars>>

NoFile == "NoFile"
None == "None"
\* The exit status of a process that has not ended.
Running == -1

(***************************************************************************)
(* Generic sequence helpers.                                               *)
(***************************************************************************)
Range(s) == {s[i] : i \in 1..Len(s)}

\* All sequences over S of length 0..n.
SeqsUpTo(S, n) == UNION {[1..k -> S] : k \in 0..n}

RECURSIVE Concat(_)
\* ''.join(parts): the concatenation of a sequence of strings.
Concat(parts) == IF parts = <<>> THEN <<>> ELSE Head(parts) \o Concat(Tail(parts))

(***************************************************************************)
(* generate_slug (fix_duplicate_slugs.py 16-23).                           *)
(***************************************************************************)
Upper == {"A", "B"}
LowerAlnum == {"a", "b", "k", "1", "2"}
\* The Kelvin sign U+212A, a letter outside A-Z whose lower() is "k".
KELVIN == "K"
Whitespace == {" "}
Hyphen == "-"

\* str.lower() on one character.
LowerChar(c) ==
    IF c = "A" THEN "a" ELSE IF c = "B" THEN "b" ELSE IF c = KELVIN THEN "k" ELSE c

\* title.lower()
LowerStr(s) == [i \in 1..Len(s) |-> LowerChar(s[i])]

\* re.sub(r'[^a-z0-9\s-]', '', slug)
KeepSlugChar(c) == c \in LowerAlnum \/ c \in Whitespace \/ c = Hyphen
\* A variant of RemoveNonSlugChars that removes nothing.
RemoveNonSlugChars_KeepAll(s) == s

RemoveNonSlugChars(s) == SelectSeq(s, KeepSlugChar)

RECURSIVE CollapseRuns(_, _, _)
\* re.sub(r'<class>+', '-', s): every maximal run of characters of the
\* class In is replaced by one hyphen.
CollapseRuns(s, In, prevIn) ==
    IF s = <<>> THEN <<>>
    ELSE IF Head(s) \in In
         THEN (IF prevIn THEN <<>> ELSE <<Hyphen>>) \o CollapseRuns(Tail(s), In, TRUE)
         ELSE <<Head(s)>> \o CollapseRuns(Tail(s), In, FALSE)

\* re.sub(r'\s+', '-', slug)
WhitespaceToHyphen(s) == CollapseRuns(s, Whitespace, FALSE)

RECURSIVE CollapseHyphens_Pairs(_)
\* A variant of CollapseHyphens that replaces each pair of hyphens by one
\* hyphen in a single pass, as slug.replace('--', '-') does.
CollapseHyphens_Pairs(s) ==
    IF Len(s) < 2 THEN s
    ELSE IF s[1] = Hyphen /\ s[2] = Hyphen
         THEN <<Hyphen>> \o CollapseHyphens_Pairs(Tail(Tail(s)))
         ELSE <<Head(s)>> \o CollapseHyphens_Pairs(Tail(s))

\* re.sub(r'-+', '-', slug)
CollapseHyphens(s) == CollapseRuns(s, {Hyphen}, FALSE)

RECURSIVE LStrip(_, _)
LStrip(s, c) == IF s # <<>> /\ Head(s) = c THEN LStrip(Tail(s), c) ELSE s

RECURSIVE RStrip(_, _)
RStrip(s, c) ==
    IF s # <<>> /\ s[Len(s)] = c THEN RStrip(SubSeq(s, 1, Len(s) - 1), c) ELSE s

\* A variant of StripHyphens that strips nothing.
StripHyphens_None(s) == s

\* slug.strip('-')
StripHyphens(s) == RStrip(LStrip(s, Hyphen), Hyphen)

generate_slug(title) ==
    StripHyphens(CollapseHyphens(WhitespaceToHyphen(RemoveNonSlugChars(LowerStr(title)))))

(***************************************************************************)
(* find_and_fix_duplicates (fix_duplicate_slugs.py 26-168).                *)
(* A CSV file is the sequence of rows csv.reader yields / csv.writer is    *)
(* given; a row is a sequence of fields; a field is a string.              *)
(***************************************************************************)
\* f"{title} - {product_id}"
AppendId(title, product_id) == title \o <<" ", "-", " ">> \o product_id

\* A variant of SlugCount that counts the rows read so far, whatever their
\* slug.
SlugCount_Total(slugs, slug) == Len(slugs)

\* slug_count[slug] after the rows whose slugs are listed in slugs.
SlugCount(slugs, slug) == Cardinality({i \in 1..Len(slugs) : slugs[i] = slug})

\* One iteration of "for row in reader" (lines 70-94) on the loop state
\* st = [rows, slugs, fixes, row_count].
ProcessRow(st, row) ==
    IF Len(row) > 1
    THEN LET product_id == row[1]
             title == row[2]
             slug == generate_slug(title)
             slugs == Append(st.slugs, slug)
             dup == SlugCount(slugs, slug) > 1
             new_title == AppendId(title, product_id)
             out == IF dup THEN [row EXCEPT ![2] = new_title] ELSE row
         IN  [rows |-> Append(st.rows, out),
              slugs |-> slugs,
              fixes |-> IF dup
                        THEN Append(st.fixes,
                                    [product_id |-> product_id,
                                     original_title |-> title,
                                     new_title |-> new_title,
                                     slug |-> slug,
                                     occurrence |-> SlugCount(slugs, slug)])
                        ELSE st.fixes,
              row_count |-> st.row_count + 1]
    ELSE [st EXCEPT !.row_count = st.row_count + 1]

RECURSIVE ReadRows(_, _)
\* The reader loop over the data rows, from the loop state st.
ReadRows(st, data) ==
    IF data = <<>> THEN st ELSE ReadRows(ProcessRow(st, Head(data)), Tail(data))

\* Lines 56-113: the rows written and the statistics, for the rows of the
\* input file (header = next(reader) is rows[1]).
FixResult(file) ==
    LET st == ReadRows([rows |-> <<Head(file)>>, slugs |-> <<>>,
                        fixes |-> <<>>, row_count |-> 0], Tail(file))
        distinct == Range(st.slugs)
    IN  [rows |-> st.rows,
         fixes |-> st.fixes,
         stats |-> [total_rows |-> st.row_count,
                    total_unique_slugs |-> Cardinality(distinct),
                    duplicate_slugs |->
                        Cardinality({s \in distinct : SlugCount(st.slugs, s) > 1}),
                    total_fixes_applied |-> Len(st.fixes)]]

(***************************************************************************)
(* Inputs of the slug deduplicator.                                        *)
(***************************************************************************)
MaxRows == 3

ProductIds == {<<"1">>, <<"2">>}
Titles == {<<"a">>, <<"A", "!">>, <<"a", " ", "-", " ", "1">>, <<"-", "b", " ">>,
           <<"a", "!">>, <<"a", KELVIN>>, <<"-", "!", " ">>}
OtherColumn == <<"x">>
HeaderRow == <<<<"i", "d">>, <<"t", "i", "t", "l", "e">>, <<"d">>>>

\* Rows csv.reader can yield: a blank line ([]), a one-column row, and rows
\* with an identifier, a title and possibly a further column.
DataRows ==
    {<<>>} \cup {<<p>> : p \in {<<"1">>}}
           \cup {<<p, t>> : p \in ProductIds, t \in Titles}
           \cup {<<<<"1">>, t, OtherColumn>> : t \in {<<"a">>, <<"A", "!">>}}

InputFiles == {<<HeaderRow>> \o d : d \in SeqsUpTo(DataRows, MaxRows)}

\* What can be at the path input_file: a CSV file, nothing, a file the
\* process may not open, a file whose bytes are not UTF-8.
InputKinds == {"file", "missing", "denied", "undecodable"}

SlugInit ==
    /\ \/ input_kind = "file" /\ input_file \in InputFiles
       \/ input_kind \in InputKinds \ {"file"} /\ input_file = <<>>
    /\ output_file = NoFile
    /\ stats = None
    /\ duplicates_fixed = <<>>
    /\ runs = 0
    /\ sl_written = {}
    /\ sl_exit = Running

\* main (171-189) on a CSV file: find_and_fix_duplicates(input_file,
\* output_file), the whole call, which writes the backup (line 54), the
\* output (98-100) and the report (149-166); then sys.exit(0).
FindAndFixDuplicates ==
    /\ script = "fix_duplicate_slugs.py"
    /\ runs = 0
    /\ input_kind = "file"
    /\ LET r == FixResult(input_file)
       IN  /\ output_file' = r.rows
           /\ stats' = r.stats
           /\ duplicates_fixed' = r.fixes
    /\ runs' = 1
    /\ sl_written' = {"backup", "output", "report"}
    /\ sl_exit' = 0
    /\ UNCHANGED <<script, input_file, input_kind, priceVars, dedupVars, scrapeVars,
                   cleanVars>>

\* main (171-189) when the input is no CSV file that can be read.  A missing
\* path raises at line 41; a file the process may not open raises in
\* shutil.copy2 (line 54) before the backup is created; a file that is not
\* UTF-8 is copied to the backup and raises in the read of lines 64-70.
\* main catches the exception and calls sys.exit(1).
FindAndFixRaises ==
    /\ script = "fix_duplicate_slugs.py"
    /\ runs = 0
    /\ input_kind # "file"
    /\ sl_exit = Running
    /\ sl_written' = IF input_kind = "undecodable" THEN {"backup"} ELSE {}
    /\ sl_exit' = 1
    /\ UNCHANGED <<script, input_file, output_file, stats, duplicates_fixed, runs,
                   input_kind, priceVars, dedupVars, scrapeVars, cleanVars>>

\* The tool run a second time, on the output file of the first run.
FindAndFixDuplicatesAgain ==
    /\ script = "fix_duplicate_slugs.py"
    /\ runs = 1
    /\ input_file' = output_file
    /\ LET r == FixResult(output_file)
       IN  /\ output_file' = r.rows
           /\ stats' = r.stats
           /\ duplicates_fixed' = r.fixes
    /\ runs' = 2
    /\ UNCHANGED <<script, input_kind, sl_written, sl_exit, priceVars, dedupVars,
                   scrapeVars, cleanVars>>

SlugNext == FindAndFixDuplicates \/ FindAndFixRaises \/ FindAndFixDuplicatesAgain


(***************************************************************************)
(* Python string and float primitives used by the price parsers.           *)
(***************************************************************************)
Digits == {"0", "1", "2", "3", "4", "5", "6", "7", "8", "9"}

DigitVal(c) ==
    CASE c = "0" -> 0 [] c = "1" -> 1 [] c = "2" -> 2 [] c = "3" -> 3
      [] c = "4" -> 4 [] c = "5" -> 5 [] c = "6" -> 6 [] c = "7" -> 7
      [] c = "8" -> 8 [] c = "9" -> 9

DigitChar(d) == <<"0", "1", "2", "3", "4", "5", "6", "7", "8", "9">>[d + 1]

RECURSIVE Pow10(_)
Pow10(n) == IF n = 0 THEN 1 ELSE 10 * Pow10(n - 1)

RECURSIVE DigitsToNat(_)
\* The number a string of decimal digits denotes ('' denotes 0).
DigitsToNat(s) ==
    IF s = <<>> THEN 0 ELSE 10 * DigitsToNat(SubSeq(s, 1, Len(s) - 1)) + DigitVal(s[Len(s)])

RECURSIVE NatToDigits(_)
NatToDigits(n) == IF n < 10 THEN <<DigitChar(n)>> ELSE NatToDigits(n \div 10) \o <<DigitChar(n % 10)>>

\* str.strip(): leading and trailing whitespace removed.
StripWs(s) == RStrip(LStrip(s, " "), " ")

\* sep in s
Contains(s, sep) ==
    \E i \in 1..(Len(s) - Len(sep) + 1) : SubSeq(s, i, i + Len(sep) - 1) = sep

\* Index of the first occurrence of sep in s (0 when there is none).
FindFirst(s, sep) ==
    IF Contains(s, sep)
    THEN CHOOSE i \in 1..(Len(s) - Len(sep) + 1) :
            /\ SubSeq(s, i, i + Len(sep) - 1) = sep
            /\ \A j \in 1..(i - 1) : SubSeq(s, j, j + Len(sep) - 1) # sep
    ELSE 0

RECURSIVE Split(_, _)
\* s.split(sep): the pieces between the non-overlapping occurrences of sep,
\* found left to right.
Split(s, sep) ==
    LET i == FindFirst(s, sep)
    IN  IF i = 0 THEN <<s>>
        ELSE <<SubSeq(s, 1, i - 1)>> \o Split(SubSeq(s, i + Len(sep), Len(s)), sep)

RECURSIVE ReplaceAll(_, _, _)
\* s.replace(old, new) for a non-empty old.
ReplaceAll(s, old, new) ==
    LET i == FindFirst(s, old)
    IN  IF i = 0 THEN s
        ELSE SubSeq(s, 1, i - 1) \o new \o ReplaceAll(SubSeq(s, i + Len(old), Len(s)), old, new)

\* s.rindex(c) for a character c that occurs in s.
RIndex(s, c) == CHOOSE i \in 1..Len(s) : s[i] = c /\ \A j \in (i + 1)..Len(s) : s[j] # c

NotANumber == [ok |-> FALSE]

\* float(s) on the characters the model's inputs are made of: surrounding
\* whitespace is ignored, one leading sign is accepted, then digits with at
\* most one '.', and at least one digit; anything else raises ValueError.
\* The value is (-1)^neg * mant / 10^frac.
ParseFloat(s) ==
    LET t == StripWs(s)
        neg == t # <<>> /\ Head(t) = "-"
        u == IF neg THEN Tail(t) ELSE t
        dots == {i \in 1..Len(u) : u[i] = "."}
        digs == SelectSeq(u, LAMBDA c : c \in Digits)
    IN  IF /\ \A i \in 1..Len(u) : u[i] \in Digits \/ u[i] = "."
           /\ Cardinality(dots) <= 1
           /\ digs # <<>>
        THEN [ok |-> TRUE, neg |-> neg, mant |-> DigitsToNat(digs),
              frac |-> IF dots = {} THEN 0 ELSE Len(u) - (CHOOSE i \in dots : TRUE)]
        ELSE NotANumber

\* a < b for two parsed numbers.
NumLess(a, b) ==
    LET sa == IF a.neg THEN 0 - a.mant ELSE a.mant
        sb == IF b.neg THEN 0 - b.mant ELSE b.mant
    IN  sa * Pow10(b.frac) < sb * Pow10(a.frac)

\* A variant of FormatPrice that cuts the product off after the cents.
FormatPrice_Truncate(v, price_multiplier) ==
    LET q == v.mant * price_multiplier
        cents == IF v.frac <= 2 THEN q * Pow10(2 - v.frac) ELSE q \div Pow10(v.frac - 2)
    IN  (IF v.neg THEN <<"-">> ELSE <<>>)
        \o NatToDigits(cents \div 100) \o <<".">>
        \o <<DigitChar((cents % 100) \div 10), DigitChar(cents % 10)>>

\* f"{value * price_multiplier:.2f}": the product rounded to cents.  With at
\* most two fraction digits the product is a whole number of cents; with
\* more the remainder is rounded to nearest (no product of the model's
\* inputs lies on a tie).
FormatPrice(v, price_multiplier) ==
    LET q == v.mant * price_multiplier
        cents == IF v.frac <= 2 THEN q * Pow10(2 - v.frac)
                 ELSE LET d == Pow10(v.frac - 2)
                      IN  IF 2 * (q % d) > d \/ (2 * (q % d) = d /\ (q \div d) % 2 = 1)
                          THEN (q \div d) + 1 ELSE q \div d
    IN  (IF v.neg THEN <<"-">> ELSE <<>>)
        \o NatToDigits(cents \div 100) \o <<".">>
        \o <<DigitChar((cents % 100) \div 10), DigitChar(cents % 10)>>

RECURSIVE RemoveSymbols(_, _)
\* x.replace(symbols[1], "").replace(symbols[2], "")... in that order
RemoveSymbols(x, symbols) ==
    IF symbols = <<>> THEN x
    ELSE RemoveSymbols(ReplaceAll(x, Head(symbols), <<>>), Tail(symbols))

\* max(prices, key=lambda x: float(x.replace(...))): the first piece whose
\* key no other piece exceeds.  Only called when every key parses.
MaxByKey(prices, symbols) ==
    LET k(i) == ParseFloat(RemoveSymbols(prices[i], symbols))
        best == CHOOSE i \in 1..Len(prices) :
                    /\ \A j \in 1..Len(prices) : ~NumLess(k(i), k(j))
                    /\ \A j \in 1..(i - 1) : NumLess(k(j), k(i))
    IN  prices[best]

DOLLAR == <<"$">>
\* The pound sign is written "#" in the model.
POUND == <<"#">>
US_DOLLAR == <<"U", "S", " ", "$">>
COMMA == <<",">>
DOT == <<".">>
TO == <<" ", "t", "o", " ">>
DASH == <<" ", "-", " ">>
ZERO_PRICE == <<"0", ".", "0", "0">>
NA == <<"N", "/", "A">>

(***************************************************************************)
(* The price parsers.  RangeParser is the body shared by process_price     *)
(* (main.py 66-93), the eBay clean_price (ebay_scraper/main.py 89-118) and *)
(* the older AliExpress clean_price (main_broken.py 103-128): they differ  *)
(* in the range separators they split on and the symbols they remove.      *)
(* The except clause returns the variable price_str, which by then holds   *)
(* the stripped string (or the piece max() chose).                         *)
(***************************************************************************)
RangeParser(price_str, price_multiplier, separators, symbols) ==
    LET stripped == StripWs(price_str)
        found == SelectSeq(separators, LAMBDA sep : Contains(stripped, sep))
        has_range == found # <<>>
        prices == Split(stripped, Head(found))
        keysOk == \A i \in 1..Len(prices) :
                      ParseFloat(RemoveSymbols(prices[i], symbols)).ok
        chosen == IF has_range THEN MaxByKey(prices, symbols) ELSE stripped
        price_float == ParseFloat(RemoveSymbols(chosen, symbols))
    IN  IF has_range /\ ~keysOk THEN stripped
        ELSE IF ~price_float.ok THEN chosen
        ELSE FormatPrice(price_float, price_multiplier)

\* main.py 66-93: splits on " to ", removes "$" and ","
process_price(price_str, price_multiplier) ==
    RangeParser(price_str, price_multiplier, <<TO>>, <<DOLLAR, COMMA>>)

\* ebay_scraper/main.py 89-118: splits on " to ", removes the pound sign,
\* "$" and ","
ebay_clean_price(price_str, price_multiplier) ==
    RangeParser(price_str, price_multiplier, <<TO>>, <<POUND, DOLLAR, COMMA>>)

\* aliexpress_scraper/main_broken.py 103-128: splits on " - " if present,
\* else on " to "; removes "US $", "$" and ","
broken_clean_price(price_str, price_multiplier) ==
    RangeParser(price_str, price_multiplier, <<DASH, TO>>, <<US_DOLLAR, DOLLAR, COMMA>>)

\* re.sub(r'[^\d.,]', '', price_str)
KeepPriceChars(s) == SelectSeq(s, LAMBDA c : c \in Digits \/ c = "." \/ c = ",")

\* A variant of DisambiguateSeparators that never takes ',' as the decimal
\* separator when both separators are present.
DisambiguateSeparators_AlwaysUS(price_clean) ==
    IF "," \in Range(price_clean) /\ "." \in Range(price_clean)
    THEN ReplaceAll(price_clean, COMMA, <<>>)
    ELSE IF "," \in Range(price_clean)
    THEN LET parts == Split(price_clean, COMMA)
         IN  IF Len(parts[Len(parts)]) <= 2
             THEN ReplaceAll(price_clean, COMMA, DOT)
             ELSE ReplaceAll(price_clean, COMMA, <<>>)
    ELSE price_clean

\* aliexpress_scraper/main.py 122-135: the decimal separator is decided.
DisambiguateSeparators(price_clean) ==
    IF "," \in Range(price_clean) /\ "." \in Range(price_clean)
    THEN IF RIndex(price_clean, ",") > RIndex(price_clean, ".")
         THEN ReplaceAll(ReplaceAll(price_clean, DOT, <<>>), COMMA, DOT)
         ELSE ReplaceAll(price_clean, COMMA, <<>>)
    ELSE IF "," \in Range(price_clean)
    THEN LET parts == Split(price_clean, COMMA)
         IN  IF Len(parts[Len(parts)]) <= 2
             THEN ReplaceAll(price_clean, COMMA, DOT)
             ELSE ReplaceAll(price_clean, COMMA, <<>>)
    ELSE price_clean

\* aliexpress_scraper/main.py 104-145
ali_clean_price(price_str, price_multiplier) ==
    IF price_str = <<>> \/ price_str = NA \/ StripWs(price_str) = <<>>
    THEN ZERO_PRICE
    ELSE LET price_clean == KeepPriceChars(StripWs(price_str))
             price_float == ParseFloat(DisambiguateSeparators(price_clean))
         IN  IF price_clean = <<>> THEN ZERO_PRICE
             ELSE IF ~price_float.ok THEN ZERO_PRICE
             ELSE FormatPrice(price_float, price_multiplier)

(***************************************************************************)
(* Inputs of the price parsers: every string of up to MaxPriceLen digits   *)
(* and separators, amounts with a currency prefix, a sign or surrounding   *)
(* blanks, ranges "<A> to <B>" and "<A> - <B>" of such ends, and the       *)
(* strings the specification names.                                        *)
(***************************************************************************)
MaxPriceLen == 5

SeparatorStrings == SeqsUpTo({"1", "2", ".", ","}, MaxPriceLen)

PlainAmounts ==
    {<<"2">>, <<"1", "2">>, <<"1", ".", "2">>, <<"2", ".", "1", "2">>, <<"1", ",", "2">>}

DecoratedAmounts ==
    {pre \o a \o post :
        pre \in {<<>>, DOLLAR, POUND, US_DOLLAR, <<" ">>, <<"-">>},
        a \in PlainAmounts \cup {<<>>, <<"x">>},
        post \in {<<>>, <<" ">>}}

RangeEnds == {pre \o a : pre \in {<<>>, DOLLAR}, a \in PlainAmounts \cup {<<>>, <<"x">>}}

RangeStrings == {a \o sep \o b : a \in RangeEnds, b \in RangeEnds, sep \in {TO, DASH}}

SpecExamples ==
    { <<"$", "1", "5", ".", "7", "4">> \o TO \o <<"$", "1", "5", "0", ".", "0", "0">>,
      <<"1", ".", "2", "3", "4", ",", "5", "6">>,
      <<"1", ",", "2", "3", "4", ".", "5", "6">>,
      <<"1", ",", "2", "3", "4", ",", "5", "6">>,
      <<"1", ",", "5", "0">>,
      <<"1", ",", "2", "3", "4">>,
      NA, <<" ", " ">> }

PriceInputs == SeparatorStrings \cup DecoratedAmounts \cup RangeStrings \cup SpecExamples

\* The multiplier is typed in by the user (main.py 166, a float); whole
\* multipliers keep the products within TLC's integers.
Multipliers == {1, 3}

PriceInit ==
    /\ arg_price_str \in PriceInputs
    /\ arg_multiplier \in Multipliers
    /\ price_fn = None
    /\ price_out = None

CallParser(name, result) ==
    /\ script = "price"
    /\ price_fn = None
    /\ price_fn' = name
    /\ price_out' = result
    /\ UNCHANGED <<script, arg_price_str, arg_multiplier, slugVars, dedupVars, scrapeVars,
                   cleanVars>>

CallProcessPrice == CallParser("process_price", process_price(arg_price_str, arg_multiplier))

CallEbayCleanPrice == CallParser("ebay_clean_price", ebay_clean_price(arg_price_str, arg_multiplier))

CallBrokenCleanPrice ==
    CallParser("broken_clean_price", broken_clean_price(arg_price_str, arg_multiplier))

CallAliCleanPrice == CallParser("ali_clean_price", ali_clean_price(arg_price_str, arg_multiplier))

PriceNext ==
    \/ CallProcessPrice
    \/ CallEbayCleanPrice
    \/ CallBrokenCleanPrice
    \/ CallAliCleanPrice

(***************************************************************************)
(* excel_csv_deduplicator/main.py: FileDeduplicator.                       *)
(*                                                                         *)
(* A data frame read from a sheet has two columns: the first is named "A", *)
(* the second col; a row is <<a, b>>.  A file is [suffix, ok, sheets]: ok  *)
(* is whether pd.read_csv / pd.ExcelFile can open it, and a sheet is       *)
(* [name, col, rows, ok] with ok whether pd.read_excel can read it.  A CSV *)
(* file holds one sheet.  The combined frame of load_and_combine_files is  *)
(* a sequence of rows <<a, col, b>>: the cell of every column other than A *)
(* and col is NaN (pd.concat fills the columns a frame lacks).             *)
(***************************************************************************)
Absent == [exists |-> FALSE]
\* self.df_final before line 117 first assigns it.
Unset == [set |-> FALSE]
Frame(rows) == [set |-> TRUE, rows |-> rows]
CSV == "CSV"

CsvFile(col, rows) ==
    [suffix |-> ".csv", ok |-> TRUE,
     sheets |-> <<[name |-> CSV, col |-> col, rows |-> rows, ok |-> TRUE]>>]

UnreadableCsv == [suffix |-> ".csv", ok |-> FALSE, sheets |-> <<>>]

XlsxFile(sheets) == [suffix |-> ".xlsx", ok |-> TRUE, sheets |-> sheets]

\* df.drop_duplicates(subset=...): the rows whose key no earlier row has,
\* in their order (keep='first').
DropDuplicates(rows, subset) ==
    LET Key(r) == [c \in subset |-> r[c]]
        keep == {i \in 1..Len(rows) : \A j \in 1..(i - 1) : Key(rows[j]) # Key(rows[i])}
        F[n \in 0..Len(rows)] ==
            IF n = 0 THEN <<>>
            ELSE IF n \in keep THEN Append(F[n - 1], rows[n]) ELSE F[n - 1]
    IN  F[Len(rows)]

RECURSIVE ConcatSheets(_, _)
\* Lines 36-44 for one file: the rows of each non-empty sheet are appended
\* to combined_data; a sheet that cannot be read raises, which ends the
\* file's loop with the rows appended so far kept (the except of line 45).
ConcatSheets(combined_data, sheets) ==
    IF sheets = <<>> THEN combined_data
    ELSE LET sh == Head(sheets)
         IN  IF ~sh.ok THEN combined_data
             ELSE ConcatSheets(
                    combined_data \o [i \in 1..Len(sh.rows) |->
                                        <<sh.rows[i][1], sh.col, sh.rows[i][2]>>],
                    Tail(sheets))

RECURSIVE ConcatFiles(_, _, _)
\* Lines 32-46: the loop over the files, each inside try/except.
ConcatFiles(combined_data, files, disk) ==
    IF files = <<>> THEN combined_data
    ELSE LET file == disk[Head(files)]
         IN  ConcatFiles(IF file.ok THEN ConcatSheets(combined_data, file.sheets)
                         ELSE combined_data,
                         Tail(files), disk)

\* load_and_combine_files (30-47): the concatenation, reduced by
\* drop_duplicates() over all columns.
load_and_combine_files(files, disk) ==
    DropDuplicates(ConcatFiles(<<>>, files, disk), {1, 2, 3})

\* The values of column col of the combined frame, and whether the frame
\* has that column at all (set_index raises KeyError when it has not).
CombinedColumns(combined_data) == {combined_data[i][2] : i \in 1..Len(combined_data)}
CombinedKeys(combined_data, col) ==
    {combined_data[i][3] : i \in {j \in 1..Len(combined_data) : combined_data[j][2] = col}}

\* _process_dataframe (85-125) on the frame of sheet sh.  raised: the
\* ValueError of line 98 or the KeyError of set_index; written: whether the
\* final frame went to the Excel writer (line 115) rather than to
\* self.df_final (line 117).
process_dataframe(sh, combined_data, columns_to_compare, has_writer) ==
    LET original_count == Len(sh.rows)
        col == IF columns_to_compare = <<"B">> THEN sh.col ELSE columns_to_compare[1]
        missing == col \notin {"A", sh.col}
        Key(r) == IF col = "A" THEN r[1] ELSE r[2]
        df_no_internal_dupes == DropDuplicates(sh.rows, IF col = "A" THEN {1} ELSE {2})
        internal_dupes_removed == original_count - Len(df_no_internal_dupes)
        key_error == combined_data # <<>> /\ col \notin CombinedColumns(combined_data) \cup {"A"}
        reference == IF col = "A" THEN {combined_data[i][1] : i \in 1..Len(combined_data)}
                     ELSE CombinedKeys(combined_data, col)
        df_final == IF combined_data # <<>>
                    THEN SelectSeq(df_no_internal_dupes, LAMBDA r : Key(r) \notin reference)
                    ELSE df_no_internal_dupes
        external_dupes_removed == Len(df_no_internal_dupes) - Len(df_final)
    IN  IF missing \/ key_error
        THEN [raised |-> TRUE]
        ELSE [raised |-> FALSE,
              df_final |-> df_final,
              written |-> has_writer /\ sh.name # CSV,
              stats |-> [sheet |-> sh.name,
                         original_rows |-> original_count,
                         internal_duplicates_removed |-> internal_dupes_removed,
                         external_duplicates_removed |-> external_dupes_removed,
                         remaining_rows |-> Len(df_final)]]

RECURSIVE ProcessSheets(_, _, _, _)
\* Lines 62-65: the loop over the sheets of the backup inside the
\* ExcelWriter block, from the state st = [raised, out, stats, df_final].
ProcessSheets(st, sheets, combined_data, columns_to_compare) ==
    IF sheets = <<>> \/ st.raised THEN st
    ELSE LET sh == Head(sheets)
             r == process_dataframe(sh, combined_data, columns_to_compare, TRUE)
         IN  IF ~sh.ok THEN [st EXCEPT !.raised = TRUE]
             ELSE IF sh.rows = <<>>
             THEN ProcessSheets(st, Tail(sheets), combined_data, columns_to_compare)
             ELSE IF r.raised THEN [st EXCEPT !.raised = TRUE]
             ELSE ProcessSheets(
                    [raised |-> FALSE,
                     out |-> IF r.written
                             THEN Append(st.out, [name |-> sh.name, col |-> sh.col,
                                                  rows |-> r.df_final, ok |-> TRUE])
                             ELSE st.out,
                     stats |-> Append(st.stats, r.stats),
                     df_final |-> IF r.written THEN st.df_final ELSE Frame(r.df_final)],
                    Tail(sheets), combined_data, columns_to_compare)

(***************************************************************************)
(* The folder the deduplicator is started on.                              *)
(***************************************************************************)
MaxRows2 == 2
MaxRefRows == 1

FrameRows == {"x", "y"} \X {"k1", "k2"}

\* find_files(): the files of the folder, newest first.
FoundFiles == <<"f1", "f2", "f3">>
BackupPath == "backup"
Paths == Range(FoundFiles) \cup {BackupPath}

Workbooks ==
    {XlsxFile(<<[name |-> "Sheet1", col |-> "title", rows |-> r1, ok |-> TRUE],
                [name |-> n2, col |-> "title", rows |-> r2, ok |-> ok2]>>) :
        r1 \in {<<>>, <<<<"x", "k1">>, <<"y", "k1">>>>},
        n2 \in {"Sheet2", CSV},
        r2 \in {<<>>, <<<<"x", "k2">>>>},
        ok2 \in BOOLEAN}

NewestPool == {CsvFile("title", r) : r \in SeqsUpTo(FrameRows, MaxRows2)} \cup Workbooks

ReferencePool ==
    {CsvFile(c, r) : c \in {"title", "name"}, r \in SeqsUpTo(FrameRows, MaxRefRows)}
        \cup {UnreadableCsv}
        \cup {w \in Workbooks : w.sheets[2].name = "Sheet2" /\ w.sheets[1].rows # <<>>}

OldestPool == {UnreadableCsv, CsvFile("title", <<<<"y", "k1">>>>), CsvFile("name", <<<<"x", "k2">>>>)}

\* What the user answers at line 151 ("quit", "no", or anything else, which
\* is taken as yes) and the number typed at line 155 after "no".
Answers == {"quit", "yes", "no"}
Numbers == 0..(Len(FoundFiles) + 1)

\* The folder data_csv with its files, or no folder of that name.
DedupInit ==
    /\ \/ /\ dd_pc = "start"
          /\ \E a \in NewestPool, b \in ReferencePool, c \in OldestPool :
                fs = [f1 |-> a, f2 |-> b, f3 |-> c, backup |-> Absent]
       \/ /\ dd_pc = "nofolder"
          /\ fs = [f \in Paths |-> Absent]
    /\ dd_exit = Running
    /\ newest_file = None
    /\ older_files = <<>>
    /\ rd_combined_data = <<>>
    /\ removal_stats = <<>>
    /\ self_df_final = Unset

\* A variant of OlderFiles that keeps only the files listed after the
\* chosen one.
OlderFiles_AfterPicked(files, picked) ==
    LET at == CHOOSE i \in 1..Len(files) : files[i] = picked
    IN  SubSeq(files, at + 1, Len(files))

\* Line 158: older_files = [f for f in files if f != newest_file]
OlderFiles(files, picked) == SelectSeq(files, LAMBDA f : f # picked)

\* remove_duplicates 142-158: the newest file is found and the user
\* confirms it or names another one.  files[idx] with idx = -1 is the last
\* file; an index past the end raises IndexError, caught at line 171.
ConfirmNewestFile ==
    /\ script = "excel_csv_deduplicator"
    /\ dd_pc = "start"
    /\ \E answer \in Answers, number \in Numbers :
         LET files == FoundFiles
             idx == number - 1
             picked == IF idx = -1 THEN files[Len(files)] ELSE files[idx + 1]
         IN  IF answer = "quit"
             THEN dd_pc' = "returned" /\ UNCHANGED <<newest_file, older_files>>
             ELSE IF answer = "yes"
             THEN /\ dd_pc' = "confirmed"
                  /\ newest_file' = files[1]
                  /\ older_files' = Tail(files)
             ELSE IF idx >= Len(files)
             THEN dd_pc' = "aborted" /\ UNCHANGED <<newest_file, older_files>>
             ELSE /\ dd_pc' = "confirmed"
                  /\ newest_file' = picked
                  /\ older_files' = OlderFiles(files, picked)
    /\ UNCHANGED <<script, fs, rd_combined_data, removal_stats, self_df_final, dd_exit,
                   slugVars, priceVars, scrapeVars, cleanVars>>

\* remove_duplicates 160-163
LoadOlderFiles ==
    /\ script = "excel_csv_deduplicator"
    /\ dd_pc = "confirmed"
    /\ rd_combined_data' = load_and_combine_files(older_files, fs)
    /\ dd_pc' = "loaded"
    /\ UNCHANGED <<script, fs, newest_file, older_files, removal_stats, self_df_final,
                   dd_exit, slugVars, priceVars, scrapeVars, cleanVars>>

\* The outcome of process_newest_file (49-83) on the file system fs0:
\* [raised, fs, stats, df_final].  handle_opened: whether pd.ExcelWriter
\* creates the output file when it is constructed (pandas from 1.2 on) or
\* only when it saves.  Saving a workbook with no sheet raises.
process_newest_file(fs0, newest, combined, columns_to_compare, handle_opened, df_final0) ==
    LET orig == fs0[newest]
        moved == [fs0 EXCEPT ![BackupPath] = orig, ![newest] = Absent]
        Failed(fs1) ==
            [raised |-> TRUE,
             fs |-> IF fs1[BackupPath] # Absent /\ fs1[newest] = Absent
                    THEN [fs1 EXCEPT ![newest] = fs1[BackupPath], ![BackupPath] = Absent]
                    ELSE fs1,
             stats |-> <<>>, df_final |-> df_final0]
    IN  IF ~orig.ok THEN Failed(moved)
        ELSE IF orig.suffix = ".csv"
        THEN LET sh == orig.sheets[1]
                 r == process_dataframe(sh, combined, columns_to_compare, FALSE)
             IN  IF sh.rows = <<>>
                 THEN [raised |-> FALSE, fs |-> moved, stats |-> <<>>, df_final |-> df_final0]
                 ELSE IF r.raised THEN Failed(moved)
                 ELSE [raised |-> FALSE,
                       fs |-> [moved EXCEPT ![newest] = CsvFile(sh.col, r.df_final)],
                       stats |-> <<r.stats>>, df_final |-> Frame(r.df_final)]
        ELSE LET st == ProcessSheets([raised |-> FALSE, out |-> <<>>, stats |-> <<>>,
                                      df_final |-> df_final0],
                                     orig.sheets, combined, columns_to_compare)
                 saved == [moved EXCEPT ![newest] = XlsxFile(st.out)]
                 unsaved == IF handle_opened
                            THEN [moved EXCEPT ![newest] =
                                     [suffix |-> ".xlsx", ok |-> FALSE, sheets |-> <<>>]]
                            ELSE moved
             IN  IF st.out = <<>> THEN [Failed(unsaved) EXCEPT !.df_final = st.df_final]
                 ELSE IF st.raised THEN [Failed(saved) EXCEPT !.df_final = st.df_final]
                 ELSE [raised |-> FALSE, fs |-> saved, stats |-> st.stats,
                       df_final |-> st.df_final]

\* remove_duplicates 165-173: process_newest_file with column 'B', and the
\* except clause that reports a failure.
ProcessNewestFile ==
    /\ script = "excel_csv_deduplicator"
    /\ dd_pc = "loaded"
    /\ \E handle_opened \in BOOLEAN :
         LET r == process_newest_file(fs, newest_file, rd_combined_data, <<"B">>,
                                      handle_opened, self_df_final)
         IN  /\ fs' = r.fs
             /\ removal_stats' = r.stats
             /\ self_df_final' = r.df_final
             /\ dd_pc' = IF r.raised THEN "aborted" ELSE "done"
    /\ UNCHANGED <<script, newest_file, older_files, rd_combined_data, dd_exit,
                   slugVars, priceVars, scrapeVars, cleanVars>>

\* Lines 176-178 when the folder does not exist: __init__ raises
\* FileNotFoundError (line 13), which nothing catches; the interpreter
\* prints it and ends with status 1.
ConstructorRaises ==
    /\ script = "excel_csv_deduplicator"
    /\ dd_pc = "nofolder"
    /\ dd_exit = Running
    /\ dd_exit' = 1
    /\ UNCHANGED <<script, fs, dd_pc, newest_file, older_files, rd_combined_data,
                   removal_stats, self_df_final, slugVars, priceVars, scrapeVars,
                   cleanVars>>

\* Line 179 returns: remove_duplicates returned at line 153, after line 169
\* or after the except clause of lines 171-173, which raises nothing; the
\* script ends and the status of the process is 0.
DedupExit ==
    /\ script = "excel_csv_deduplicator"
    /\ dd_pc \in {"returned", "aborted", "done"}
    /\ dd_exit = Running
    /\ dd_exit' = 0
    /\ UNCHANGED <<script, fs, dd_pc, newest_file, older_files, rd_combined_data,
                   removal_stats, self_df_final, slugVars, priceVars, scrapeVars,
                   cleanVars>>

DedupNext ==
    \/ ConfirmNewestFile \/ LoadOlderFiles \/ ProcessNewestFile
    \/ ConstructorRaises \/ DedupExit

(***************************************************************************)
(* The keyword loop of main() in ebay_scraper/main.py (463-534); the loop  *)
(* of aliexpress_scraper/main.py (451-537) is the same statement for       *)
(* statement.  scraper.search and generate_category_descriptions are the   *)
(* outside world: what they return is chosen freely.                       *)
(***************************************************************************)
MaxKeywords == 2
MaxResults == 2
MaxLimit == 2

KeywordPool == {"kwA", "kwB"}
Items == [title : {"t1", "t2"}, price : {<<"$", "2">>, <<"1", "2">>}, imagelink : {"img"}]
\* (short_desc, full_desc) as generate_category_descriptions returns them:
\* a generated pair, or the fallback pair of line 87.
DescriptionPairs == {<<"short", "full">>, <<"fallback short", "fallback full">>}

TitlesOf(products) == {products[i].title : i \in 1..Len(products)}

\* A variant of IsCached that finds no keyword in the cache.
IsCached_Never(descs, keyword) == FALSE

\* Line 473: keyword in category_descriptions
IsCached(descs, keyword) == keyword \in {d.keyword : d \in Range(descs)}

\* category_descriptions[keyword]
DescOf(descs, keyword) == (CHOOSE d \in Range(descs) : d.keyword = keyword)

\* A variant of StoreItem without the membership test of line 489: every
\* item is stored.
StoreItem_Always(products, item, keyword, descs) ==
    Append(products,
           [title |-> item.title, price |-> item.price, imagelink |-> item.imagelink,
            category |-> keyword,
            short_description |-> DescOf(descs, keyword).short,
            description |-> DescOf(descs, keyword).full])

\* A variant of StoreItem that assigns unique_products[title] on every
\* item: a later item replaces the record stored under its title.
StoreItem_Overwrite(products, item, keyword, descs) ==
    LET rec == [title |-> item.title, price |-> item.price, imagelink |-> item.imagelink,
                category |-> keyword,
                short_description |-> DescOf(descs, keyword).short,
                description |-> DescOf(descs, keyword).full]
    IN  IF item.title \in TitlesOf(products)
        THEN [i \in 1..Len(products) |->
                 IF products[i].title = item.title THEN rec ELSE products[i]]
        ELSE Append(products, rec)

\* Lines 488-493: one item of the results is stored unless its title is a
\* key of unique_products already.
StoreItem(products, item, keyword, descs) ==
    IF item.title \notin TitlesOf(products)
    THEN Append(products,
                [title |-> item.title, price |-> item.price, imagelink |-> item.imagelink,
                 category |-> keyword,
                 short_description |-> DescOf(descs, keyword).short,
                 description |-> DescOf(descs, keyword).full])
    ELSE products

RECURSIVE StoreResults(_, _, _, _, _)
\* Lines 486-498: the loop over the results, which breaks once an item
\* was stored and the limit is reached.  st = [products, seen].
StoreResults(st, results, keyword, descs, limit) ==
    IF results = <<>> THEN st
    ELSE LET item == Head(results)
             products == StoreItem(st.products, item, keyword, descs)
             seen == IF item.title \in {st.seen[i].title : i \in 1..Len(st.seen)}
                     THEN st.seen
                     ELSE Append(st.seen, [title |-> item.title, price |-> item.price,
                                           keyword |-> keyword])
             next == [products |-> products, seen |-> seen]
         IN  IF products # st.products /\ Len(products) >= limit
             THEN next
             ELSE StoreResults(next, Tail(results), keyword, descs, limit)

\* The variables of the two search methods while main is not inside them.
EbaySearchIdle ==
    /\ es_pc = None
    /\ es_log = <<>>
    /\ es_result = <<>>

AliSearchIdle ==
    /\ al_pc = None
    /\ drivers = <<>>
    /\ self_driver = 0
    /\ max_results_per_keyword = 0
    /\ url_index = 1
    /\ all_items = 0
    /\ al_calls = 0
    /\ al_returned = 0

ScrapeInit ==
    /\ keywords \in SeqsUpTo(KeywordPool, MaxKeywords)
    /\ total_results_limit \in 0..MaxLimit
    /\ kw_pos = 1
    /\ unique_products = <<>>
    /\ category_descriptions = <<>>
    /\ first_seen = <<>>
    /\ desc_calls = <<>>
    /\ sc_pc = "loop"
    /\ output_csv = NoFile
    /\ EbaySearchIdle /\ AliSearchIdle

\* One pass of "for keyword in keywords" (471-507).
SearchKeyword ==
    /\ script = "scraper"
    /\ sc_pc = "loop"
    /\ kw_pos <= Len(keywords)
    /\ \E pair \in DescriptionPairs, results \in SeqsUpTo(Items, MaxResults) :
         LET keyword == keywords[kw_pos]
             descs == IF IsCached(category_descriptions, keyword)
                      THEN category_descriptions
                      ELSE Append(category_descriptions,
                                  [keyword |-> keyword, short |-> pair[1], full |-> pair[2]])
             st == StoreResults([products |-> unique_products, seen |-> first_seen],
                                results, keyword, descs, total_results_limit)
         IN  /\ category_descriptions' = descs
             /\ desc_calls' = IF IsCached(category_descriptions, keyword)
                              THEN desc_calls
                              ELSE Append(desc_calls, keyword)
             /\ unique_products' = st.products
             /\ first_seen' = st.seen
             /\ IF Len(st.products) >= total_results_limit \/ kw_pos = Len(keywords)
                THEN sc_pc' = "write" /\ kw_pos' = kw_pos
                ELSE sc_pc' = "loop" /\ kw_pos' = kw_pos + 1
    /\ UNCHANGED <<script, keywords, total_results_limit, output_csv,
                   ebaySearchVars, aliSearchVars, slugVars, priceVars, dedupVars,
                   cleanVars>>

\* Lines 509-534: output.csv is written, a header and one row per product.
WriteOutputCsv ==
    /\ script = "scraper"
    /\ sc_pc = "write" \/ (sc_pc = "loop" /\ kw_pos > Len(keywords))
    /\ \E m \in Multipliers :
         output_csv' = [i \in 1..Len(unique_products) |->
                          [Image |-> unique_products[i].imagelink,
                           Title |-> unique_products[i].title,
                           RegularPrice |-> ebay_clean_price(unique_products[i].price, m),
                           Category |-> unique_products[i].category,
                           Short_description |-> unique_products[i].short_description,
                           description |-> unique_products[i].description]]
    /\ sc_pc' = "done"
    /\ UNCHANGED <<script, keywords, total_results_limit, kw_pos, unique_products,
                   category_descriptions, first_seen, desc_calls, ebaySearchVars,
                   aliSearchVars, slugVars, priceVars, dedupVars, cleanVars>>

ScrapeNext == SearchKeyword \/ WriteOutputCsv

(***************************************************************************)
(* EbayScraper.search (ebay_scraper/main.py 139-194).  A request of the    *)
(* session is the outside world: what comes back is chosen freely.  The    *)
(* list a parser returns is its items, "item" standing for one of them.    *)
(***************************************************************************)
\* range(3) of line 152 and range(2) of line 178
DesktopAttempts == 3
MobileAttempts == 2

\* What self.session.get and the parser that follows can do: get raises
\* (timeout, connection error); a status other than 200; status 200 with
\* the page "Pardon Our Interruption"; status 200 and the parser raises;
\* status 200 and the parser returns an empty list, or a list of items.
Responses == {"exception", "status", "blocked", "parse_raises", "no_items", "items"}

\* The requests of the log made to site.
RequestsTo(log, site) == Cardinality({k \in 1..Len(log) : log[k].site = site})

\* Lines 158-170: what one pass of the desktop loop does with the
\* response: return the parser's list, or go on with the next attempt.
DesktopPass(response) ==
    IF response = "items" THEN [returns |-> TRUE, list |-> <<"item">>]
    ELSE IF response = "no_items" THEN [returns |-> TRUE, list |-> <<>>]
    ELSE [returns |-> FALSE, list |-> <<>>]

\* Lines 184-192: one pass of the mobile loop.  Status 200 is all that is
\* tested: the interruption page is parsed like a result page, and holds
\* no listing.
MobilePass(response) ==
    IF response = "items" THEN [returns |-> TRUE, list |-> <<"item">>]
    ELSE IF response \in {"no_items", "blocked"} THEN [returns |-> TRUE, list |-> <<>>]
    ELSE [returns |-> FALSE, list |-> <<>>]

EbaySearchInit ==
    /\ es_pc = "desktop"
    /\ es_log = <<>>
    /\ es_result = <<>>

\* One pass of the loop of _try_desktop_search (152-170), with what follows
\* it when it is the last: the return of line 172 and lines 142-146 of
\* search.
DesktopAttempt ==
    /\ script = "EbayScraper.search"
    /\ es_pc = "desktop"
    /\ \E response \in Responses :
         LET log == Append(es_log, [site |-> "desktop", response |-> response])
             pass == DesktopPass(response)
             desktop_results ==
                 IF pass.returns THEN pass.list ELSE <<>>
             over == pass.returns \/ RequestsTo(log, "desktop") = DesktopAttempts
         IN  /\ es_log' = log
             /\ IF ~over THEN es_pc' = "desktop" /\ es_result' = es_result
                ELSE IF desktop_results # <<>>
                THEN es_pc' = "returned" /\ es_result' = desktop_results
                ELSE es_pc' = "mobile" /\ es_result' = es_result
    /\ UNCHANGED <<script, loopVars, aliSearchVars, slugVars, priceVars, dedupVars,
                   cleanVars>>

\* One pass of the loop of _try_mobile_search (178-192), with the return of
\* line 194 when it is the last.
MobileAttempt ==
    /\ script = "EbayScraper.search"
    /\ es_pc = "mobile"
    /\ \E response \in Responses :
         LET log == Append(es_log, [site |-> "mobile", response |-> response])
             pass == MobilePass(response)
             over == pass.returns \/ RequestsTo(log, "mobile") = MobileAttempts
         IN  /\ es_log' = log
             /\ IF over
                THEN es_pc' = "returned" /\ es_result' = pass.list
                ELSE es_pc' = "mobile" /\ es_result' = es_result
    /\ UNCHANGED <<script, loopVars, aliSearchVars, slugVars, priceVars, dedupVars,
                   cleanVars>>

EbaySearchNext == DesktopAttempt \/ MobileAttempt

(***************************************************************************)
(* AliExpressFixedScraper.setup_driver and search (aliexpress_scraper/     *)
(* main.py 156-249), called by main once for each keyword.  Chrome and     *)
(* the pages are the outside world.                                        *)
(***************************************************************************)
MaxSearches == 3

\* len(self.search_urls), lines 151-154
UrlPatterns == 2

\* How setup_driver (156-192) can end: selenium is not installed (line 159
\* raises); ChromeDriverManager().install() or webdriver.Chrome raises
\* before a driver exists; the driver is created and execute_script or
\* execute_cdp_cmd (184-187) raises; True is returned.
SetupOutcomes == {"no_selenium", "no_driver", "stealth_fails", "ok"}

\* What one pass over a URL pattern (204-242) can meet: an exception in
\* get, the scrolling or the parser (PageRaises); or a number of items
\* parsed.
PageRaises == -1
PageOutcomes == {PageRaises} \cup 0..MaxResults

Min(a, b) == IF a < b THEN a ELSE b

\* self.driver.quit() on the driver self.driver refers to
QuitDriver(ds, at) == IF at = 0 THEN ds ELSE [ds EXCEPT ![at] = "quit"]

AliSearchInit ==
    /\ al_pc = "setup"
    /\ drivers = <<>>
    /\ self_driver = 0
    /\ max_results_per_keyword \in 1..MaxResults
    /\ url_index = 1
    /\ all_items = 0
    /\ al_calls = 1
    /\ al_returned = 0

\* Lines 196-200 of search with setup_driver (156-192): the driver is set
\* up; when setup_driver returns False search returns [] at line 198.
SetupDriver ==
    /\ script = "AliExpressFixedScraper.search"
    /\ al_pc = "setup"
    /\ \E outcome \in SetupOutcomes :
         LET created == outcome \in {"stealth_fails", "ok"}
         IN  /\ drivers' = IF created THEN Append(drivers, "open") ELSE drivers
             /\ self_driver' = IF created THEN Len(drivers) + 1 ELSE self_driver
             /\ al_pc' = IF outcome = "ok" THEN "urls"
                         ELSE IF outcome = "no_selenium" THEN "raised"
                         ELSE "returned"
    /\ al_returned' = 0
    /\ UNCHANGED <<script, max_results_per_keyword, url_index, all_items, al_calls,
                   loopVars, ebaySearchVars, slugVars, priceVars, dedupVars, cleanVars>>

\* One pass of the loop over self.search_urls (204-242), with what follows
\* it when it is the last or breaks: the finally clause (245-247) and the
\* return of line 249.
TryUrlPattern ==
    /\ script = "AliExpressFixedScraper.search"
    /\ al_pc = "urls"
    /\ \E outcome \in PageOutcomes :
         LET items == IF outcome = PageRaises THEN 0 ELSE outcome
             found == all_items + items
             breaks == items > 0 /\ found >= max_results_per_keyword
             over == breaks \/ url_index = UrlPatterns
         IN  /\ all_items' = found
             /\ IF over
                THEN /\ drivers' = QuitDriver(drivers, self_driver)
                     /\ al_pc' = "returned"
                     /\ al_returned' = Min(found, max_results_per_keyword)
                     /\ url_index' = url_index
                ELSE /\ url_index' = url_index + 1
                     /\ UNCHANGED <<drivers, al_pc, al_returned>>
    /\ UNCHANGED <<script, self_driver, max_results_per_keyword, al_calls,
                   loopVars, ebaySearchVars, slugVars, priceVars, dedupVars, cleanVars>>

\* main (458-471): the loop over the keywords calls search again.
SearchNextKeyword ==
    /\ script = "AliExpressFixedScraper.search"
    /\ al_pc = "returned"
    /\ al_calls < MaxSearches
    /\ al_calls' = al_calls + 1
    /\ al_pc' = "setup"
    /\ url_index' = 1
    /\ all_items' = 0
    /\ UNCHANGED <<script, drivers, self_driver, max_results_per_keyword, al_returned,
                   loopVars, ebaySearchVars, slugVars, priceVars, dedupVars, cleanVars>>

AliSearchNext == SetupDriver \/ TryUrlPattern \/ SearchNextKeyword

(***************************************************************************)
(* csv_cleaner/clean_csv.py.  A text is a sequence of characters; a        *)
(* sequence of characters that the cleaner only meets as a whole is one    *)
(* element: MOJIBAKE is the five characters of the corrupt UTF-8 prefix of *)
(* lines 49-52, OE and TM the two characters that follow it in lines 50    *)
(* and 52, AMP_TAIL the 'amp;' of '&amp;' and NAME_ERROR '#NAME?'.         *)
(***************************************************************************)
EQUALS == "="
MOJIBAKE == "<M>"
QUOTE == "\""
APOSTROPHE == "'"
OE == "<OE>"
TM == "<TM>"
AMPERSAND == "&"
AMP_TAIL == "amp;"
NAME_ERROR == "#NAME?"
OPEN == "("
CLOSE == ")"

\* [A-Za-z] among the characters of the model's texts.
Letters == {"a"}

\* The length of the match of the regular expression of line 39 at the
\* start of s, 0 when it does not match there:
\* \(([A-Za-z]{5,}|[A-Za-z]+\s+[A-Za-z]+(?:\s+[A-Za-z]+)*)\)
BracketedNameAt(s) ==
    LET Ends == {j \in 2..Len(s) :
                    /\ s[j] = CLOSE
                    /\ \A k \in 2..(j - 1) : s[k] \in Letters \cup Whitespace
                    /\ LET n == j - 2
                       IN  \/ n >= 5 /\ \A k \in 2..(j - 1) : s[k] \in Letters
                           \/ /\ n >= 3
                              /\ s[2] \in Letters /\ s[j - 1] \in Letters
                              /\ \E k \in 2..(j - 1) : s[k] \in Whitespace}
    IN  IF s # <<>> /\ Head(s) = OPEN /\ Ends # {}
        THEN CHOOSE j \in Ends : \A i \in Ends : j <= i
        ELSE 0

RECURSIVE RemoveBracketedNames(_)
\* Line 39: re.sub of the bracketed names by ''.
RemoveBracketedNames(s) ==
    IF s = <<>> THEN <<>>
    ELSE LET n == BracketedNameAt(s)
         IN  IF n > 0 THEN RemoveBracketedNames(SubSeq(s, n + 1, Len(s)))
             ELSE <<Head(s)>> \o RemoveBracketedNames(Tail(s))

\* Lines 42-55: the list replacements, in its order.
replacements ==
    << <<<<EQUALS, Hyphen>>, <<>>>>,
       <<<<Hyphen, EQUALS>>, <<>>>>,
       <<<<EQUALS, Hyphen, Hyphen>>, <<>>>>,
       <<<<Hyphen, Hyphen, EQUALS>>, <<>>>>,
       <<<<EQUALS, EQUALS, EQUALS>>, <<>>>>,
       <<<<EQUALS, EQUALS>>, <<>>>>,
       <<<<MOJIBAKE, QUOTE>>, <<Hyphen>>>>,
       <<<<MOJIBAKE, OE>>, <<QUOTE>>>>,
       <<<<MOJIBAKE>>, <<QUOTE>>>>,
       <<<<MOJIBAKE, TM>>, <<APOSTROPHE>>>>,
       <<<<AMPERSAND, AMP_TAIL>>, <<AMPERSAND>>>>,
       <<<<NAME_ERROR>>, <<>>>> >>

RECURSIVE ApplyReplacements(_, _)
\* Lines 57-58: one text.replace after the other.
ApplyReplacements(text, pairs) ==
    IF pairs = <<>> THEN text
    ELSE ApplyReplacements(ReplaceAll(text, Head(pairs)[1], Head(pairs)[2]), Tail(pairs))

RECURSIVE CollapseWhitespace(_, _)
\* re.sub(r'\s+', ' ', text)
CollapseWhitespace(s, prevWs) ==
    IF s = <<>> THEN <<>>
    ELSE IF Head(s) \in Whitespace
         THEN (IF prevWs THEN <<>> ELSE <<" ">>) \o CollapseWhitespace(Tail(s), TRUE)
         ELSE <<Head(s)>> \o CollapseWhitespace(Tail(s), FALSE)

\* Lines 30-62
method1_simple_string_replacement(text) ==
    StripWs(CollapseWhitespace(ApplyReplacements(RemoveBracketedNames(text), replacements),
                               FALSE))

\* Lines 226-230: the return of line 230; the rest of the body is never
\* reached.
clean_text(text) == method1_simple_string_replacement(text)

\* Lines 429-443 for one row.
CleanedRow(row) == [c \in 1..Len(row) |-> clean_text(row[c])]

\* Lines 429-444: the rows written and the counter cells_changed.
CleanedRows(rows) == [r \in 1..Len(rows) |-> CleanedRow(rows[r])]
CellsChanged(rows) ==
    Cardinality({rc \in (1..Len(rows)) \X (1..2) :
                    rc[2] <= Len(rows[rc[1]])
                    /\ rows[rc[1]][rc[2]] # clean_text(rows[rc[1]][rc[2]])})

(***************************************************************************)
(* Inputs of clean_csv.py.                                                 *)
(***************************************************************************)
MaxTextLen == 4

TextChars ==
    {EQUALS, Hyphen, " ", "a", MOJIBAKE, QUOTE, AMPERSAND, AMP_TAIL, NAME_ERROR}

\* Texts with bracketed names and with the characters of lines 50 and 52.
BracketTexts ==
    {<<OPEN, "a", "a", "a", "a", "a", CLOSE>>,
     <<OPEN, "a", "a", "a", "a", CLOSE>>,
     <<OPEN, "a", " ", "a", CLOSE>>,
     <<OPEN, "a", " ", " ", "a", " ", "a", CLOSE>>,
     <<OPEN, " ", "a", " ", "a", CLOSE>>,
     <<EQUALS, OPEN, "a", " ", "a", CLOSE, Hyphen>>,
     <<"a", " ", OPEN, "a", " ", "a", CLOSE, " ", "a">>,
     <<OPEN, OPEN, "a", " ", "a", CLOSE, CLOSE>>,
     <<OPEN, "a", OPEN, "a", " ", "a", CLOSE, " ", "a", CLOSE>>,
     <<MOJIBAKE, OE>>, <<MOJIBAKE, TM>>, <<EQUALS, MOJIBAKE, OE>>}

Texts == SeqsUpTo(TextChars, MaxTextLen) \cup BracketTexts

\* A file of a header row and one row of two cells, the second of which
\* always needs cleaning.
CsvFiles == {<< <<<<"a">>, <<"a">>>>, <<x, <<"a", " ", EQUALS, Hyphen>>>> >> : x \in Texts}

CleanCsvInit ==
    /\ \/ cc_kind = "file" /\ cc_input \in CsvFiles
       \/ cc_kind \in {"missing", "unsniffable"} /\ cc_input = <<>>
    /\ cc_output = NoFile
    /\ cells_changed = 0
    /\ cc_runs = 0
    /\ cc_exit = Running

\* main (485-494) on a CSV file: clean_csv_file returns True.
CleanCsvFile ==
    /\ script = "clean_csv.py"
    /\ cc_runs = 0
    /\ cc_kind = "file"
    /\ cc_output' = CleanedRows(cc_input)
    /\ cells_changed' = CellsChanged(cc_input)
    /\ cc_runs' = 1
    /\ cc_exit' = 0
    /\ UNCHANGED <<script, cc_kind, cc_input, cl_input, cl_output, cl_stats, cl_pc, cl_exit,
                   slugVars, priceVars, dedupVars, scrapeVars>>

\* main (485-494) when clean_csv_file returns False: the path does not
\* exist (398-400), or the Sniffer raises (418), which the except clause of
\* lines 456-458 catches before the output is opened; sys.exit(1).
CleanCsvFails ==
    /\ script = "clean_csv.py"
    /\ cc_runs = 0
    /\ cc_kind # "file"
    /\ cc_exit = Running
    /\ cc_exit' = 1
    /\ UNCHANGED <<script, cc_kind, cc_input, cc_output, cells_changed, cc_runs,
                   cl_input, cl_output, cl_stats, cl_pc, cl_exit,
                   slugVars, priceVars, dedupVars, scrapeVars>>

\* The tool run a second time, on the output file of the first run (in
\* which the Sniffer is taken to find the delimiter again).
CleanCsvFileAgain ==
    /\ script = "clean_csv.py"
    /\ cc_runs = 1
    /\ cc_input' = cc_output
    /\ cc_output' = CleanedRows(cc_output)
    /\ cells_changed' = CellsChanged(cc_output)
    /\ cc_runs' = 2
    /\ UNCHANGED <<script, cc_kind, cc_exit, cl_input, cl_output, cl_stats, cl_pc, cl_exit,
                   slugVars, priceVars, dedupVars, scrapeVars>>

CleanCsvNext == CleanCsvFile \/ CleanCsvFails \/ CleanCsvFileAgain

CleanCsvIdle ==
    /\ cc_kind = None
    /\ cc_input = <<>>
    /\ cc_output = NoFile
    /\ cells_changed = 0
    /\ cc_runs = 0
    /\ cc_exit = Running

(***************************************************************************)
(* csv_cleaner/clean_encoded_slugs.py.  A CSV file is [readable, sniff_ok, *)
(* header, rows]: whether open() succeeds, whether csv.Sniffer finds a     *)
(* delimiter in the first 1024 characters, the field names of the first    *)
(* line and the rows csv.reader yields after it.  A field is a string; the *)
(* value DictReader gives a field the row is too short for is NoneField.   *)
(***************************************************************************)
\* Pseudo-characters: any character outside ASCII, and any ASCII control
\* character.
NON_ASCII == "<U>"
CTRL == "<C>"

UpperLetters ==
    <<"A", "B", "C", "D", "E", "F", "G", "H", "I", "J", "K", "L", "M",
      "N", "O", "P", "Q", "R", "S", "T", "U", "V", "W", "X", "Y", "Z">>
LowerLetters ==
    <<"a", "b", "c", "d", "e", "f", "g", "h", "i", "j", "k", "l", "m",
      "n", "o", "p", "q", "r", "s", "t", "u", "v", "w", "x", "y", "z">>
HexDigits ==
    <<"0", "1", "2", "3", "4", "5", "6", "7", "8", "9", "a", "b", "c", "d", "e", "f">>

\* The index of x in the sequence s, in which it occurs.
IndexIn(s, x) == CHOOSE i \in 1..Len(s) : s[i] = x

\* [0-9a-fA-F] and the value of such a digit.
IsHex(c) == c \in Range(HexDigits) \/ c \in {UpperLetters[i] : i \in 1..6}
HexVal(c) ==
    IF c \in Range(HexDigits) THEN IndexIn(HexDigits, c) - 1
    ELSE 9 + IndexIn(UpperLetters, c)

\* The characters of the bytes 0x20 to 0x7e.
PrintableAscii ==
    <<" ", "!", "\"", "#", "$", "%", "&", "'", "(", ")", "*", "+", ",", "-", ".", "/",
      "0", "1", "2", "3", "4", "5", "6", "7", "8", "9", ":", ";", "<", "=", ">", "?",
      "@">> \o UpperLetters \o <<"[", "<backslash>", "]", "^", "_", "<backtick>">> \o LowerLetters
         \o <<"{", "|", "}", "~">>

\* The character a decoded byte gives: bytes from 0x80 on decode (UTF-8,
\* errors='replace') to characters outside ASCII.
ByteChar(b) ==
    IF b >= 128 THEN NON_ASCII
    ELSE IF b < 32 \/ b = 127 THEN CTRL
    ELSE PrintableAscii[b - 31]

\* Line 88: re.search(r'%[0-9a-fA-F]{2}', slug)
has_url_encoding(slug) ==
    \E i \in 1..(Len(slug) - 2) : slug[i] = "%" /\ IsHex(slug[i + 1]) /\ IsHex(slug[i + 2])

RECURSIVE Unquote(_)
\* Line 32: urllib.parse.unquote
Unquote(s) ==
    IF s = <<>> THEN <<>>
    ELSE IF Len(s) >= 3 /\ s[1] = "%" /\ IsHex(s[2]) /\ IsHex(s[3])
    THEN <<ByteChar(16 * HexVal(s[2]) + HexVal(s[3]))>> \o Unquote(SubSeq(s, 4, Len(s)))
    ELSE <<Head(s)>> \o Unquote(Tail(s))

\* [a-zA-Z0-9]
AsciiAlnum == Range(LowerLetters) \cup Range(UpperLetters) \cup Digits

\* str.lower() on a character of an ASCII string.
AsciiLower(c) ==
    IF c \in Range(UpperLetters) THEN LowerLetters[IndexIn(UpperLetters, c)] ELSE c

\* Lines 20-82
decode_and_clean_slug(encoded_slug) ==
    LET decoded == SelectSeq(Unquote(encoded_slug), LAMBDA c : c # NON_ASCII)
        other == Range(decoded) \ (AsciiAlnum \cup {Hyphen})
        cleaned == StripHyphens(CollapseHyphens(CollapseRuns(decoded, other, FALSE)))
    IN  [i \in 1..Len(cleaned) |-> AsciiLower(cleaned[i])]

\* The value None of a field, as a sequence no string equals.
NoneField == <<"<None>">>

PRODUCT_PREFIX == <<"p", "r", "o", "d", "u", "c", "t", "-">>

\* csv.DictReader: the value of field name in a row of the file with the
\* given fieldnames; NoneField when the row is too short, default when the file
\* has no such field.
RowGet(fieldnames, row, name, default) ==
    IF \E k \in 1..Len(fieldnames) : fieldnames[k] = name
    THEN LET k == CHOOSE k \in 1..Len(fieldnames) : fieldnames[k] = name
         IN  IF k <= Len(row) THEN row[k] ELSE NoneField
    ELSE default

\* csv.DictWriter.writerow: the fields in the order of fieldnames, None
\* written as the empty string.
WriteRow(fieldnames, row, slug) ==
    [k \in 1..Len(fieldnames) |->
        IF fieldnames[k] = "slug" THEN slug
        ELSE IF k <= Len(row) THEN row[k] ELSE <<>>]

\* Lines 146-187, one iteration on the loop state st = [out, stats,
\* row_num, raised].  A row that lacks the slug field has slug None, on
\* which re.search raises TypeError; a row with more fields than the header
\* has the key None, on which writerow raises ValueError.
CleanRow(st, fieldnames, row) ==
    LET original_slug == RowGet(fieldnames, row, "slug", <<>>)
        counted == [st.stats EXCEPT !.total_products = @ + 1]
        encoded == has_url_encoding(original_slug)
        decoded_slug == decode_and_clean_slug(original_slug)
        product_id == RowGet(fieldnames, row, "product_id",
                             RowGet(fieldnames, row, "id", <<>>))
        fallback == IF product_id # <<>> /\ product_id # NoneField
                    THEN PRODUCT_PREFIX \o product_id
                    ELSE PRODUCT_PREFIX \o NatToDigits(st.row_num)
        cleaned_slug == IF decoded_slug = <<>> THEN fallback ELSE decoded_slug
        new_stats ==
            IF encoded
            THEN [counted EXCEPT !.encoded_slugs = @ + 1,
                                 !.cleaned_slugs = @ + 1,
                                 !.empty_slugs = IF decoded_slug = <<>> THEN @ + 1 ELSE @]
            ELSE [counted EXCEPT !.unchanged_slugs = @ + 1]
    IN  IF original_slug = NoneField
        THEN [st EXCEPT !.stats = counted, !.raised = TRUE]
        ELSE IF Len(row) > Len(fieldnames)
        THEN [st EXCEPT !.stats = new_stats, !.raised = TRUE]
        ELSE [out |-> Append(st.out, WriteRow(fieldnames, row,
                                              IF encoded THEN cleaned_slug
                                              ELSE original_slug)),
              stats |-> new_stats,
              row_num |-> st.row_num + 1,
              raised |-> FALSE]

RECURSIVE CleanRows(_, _, _)
\* The loop of line 146: DictReader skips the rows that have no field.
CleanRows(st, fieldnames, rows) ==
    IF rows = <<>> \/ st.raised THEN st
    ELSE IF Head(rows) = <<>> THEN CleanRows(st, fieldnames, Tail(rows))
    ELSE CleanRows(CleanRow(st, fieldnames, Head(rows)), fieldnames, Tail(rows))

\* process_csv (90-193): how it ended ("stats": returned the statistics,
\* "empty": returned {}, "raised": an exception left it), the file at
\* output_file and the statistics.
process_csv(file) ==
    LET st == CleanRows([out |-> <<file.header>>,
                         stats |-> [total_products |-> 0, encoded_slugs |-> 0,
                                    cleaned_slugs |-> 0, empty_slugs |-> 0,
                                    unchanged_slugs |-> 0],
                         row_num |-> 2, raised |-> FALSE],
                        file.header, file.rows)
    IN  IF file = Absent THEN [ended |-> "empty", output |-> NoFile, stats |-> None]
        ELSE IF ~file.readable \/ ~file.sniff_ok
        THEN [ended |-> "raised", output |-> NoFile, stats |-> None]
        ELSE IF "slug" \notin Range(file.header)
        THEN [ended |-> "empty", output |-> NoFile, stats |-> None]
        ELSE [ended |-> IF st.raised THEN "raised" ELSE "stats",
              output |-> st.out,
              stats |-> IF st.raised THEN None ELSE st.stats]

(***************************************************************************)
(* Inputs of the encoded-slug cleaner.                                     *)
(***************************************************************************)
MaxCleanRows == 2

CleanerSlugs ==
    {<<"p", "-", "1">>, <<>>, <<"%", "e", "1">>, <<"p", "%", "e", "1">>,
     <<"%", "4", "1">>, <<"%", "4">>, <<"%", "1", "4", "%", "4", "4">>,
     <<"%", "2", "5", "4", "1">>}

\* The slugs of the pool that clean to the empty string.
EmptiedSlugs == {sl \in CleanerSlugs : has_url_encoding(sl) /\ decode_and_clean_slug(sl) = <<>>}

CleanerHeaders ==
    {<<"id", "slug", "title">>, <<"product_id", "id", "slug">>, <<"id", "title">>}

\* Rows for a header: of its length, with every slug of the pool and both
\* identifiers, and for the slugs that clean to nothing with or without the
\* identifiers (one of them a stock code rather than a number); one field
\* short; one field long; no field.
CleanerRows(header) ==
    LET Row(sl, pid, id) ==
            [k \in 1..Len(header) |->
                IF header[k] = "slug" THEN sl
                ELSE IF header[k] = "product_id" THEN pid
                ELSE IF header[k] = "id" THEN id
                ELSE <<"t">>]
        Full == {Row(sl, <<"7">>, <<"8">>) : sl \in CleanerSlugs}
                   \cup {Row(sl, pid, id) : sl \in EmptiedSlugs,
                                            pid \in {<<>>, <<"7">>, <<"A", "%", "4", "1">>},
                                            id \in {<<>>, <<"8">>}}
    IN  Full \cup {<<>>, <<<<"8">>>>, <<<<"8">>, <<"%", "e", "1">>, <<"t">>, <<"x">>>>}

CleanerFiles ==
    UNION {{[readable |-> TRUE, sniff_ok |-> TRUE, header |-> h, rows |-> r] :
               r \in SeqsUpTo(CleanerRows(h), MaxCleanRows)} : h \in CleanerHeaders}

\* A file that cannot be opened, and one in which the Sniffer finds no
\* delimiter (a file of one column).
UnreadableFile ==
    [readable |-> FALSE, sniff_ok |-> TRUE, header |-> <<"id", "slug", "title">>,
     rows |-> <<>>]
UnsniffableFile ==
    [readable |-> TRUE, sniff_ok |-> FALSE, header |-> <<"slug">>, rows |-> <<>>]

CleanInit ==
    /\ CleanCsvIdle
    /\ cl_input \in {Absent, UnreadableFile, UnsniffableFile} \cup CleanerFiles
    /\ cl_output = NoFile
    /\ cl_stats = None
    /\ cl_pc = "start"
    /\ cl_exit = Running

\* main (248-252): process_csv(input_file, output_file)
ProcessCsv ==
    /\ script = "clean_encoded_slugs.py"
    /\ cl_pc = "start"
    /\ LET r == process_csv(cl_input)
       IN  /\ cl_output' = r.output
           /\ cl_stats' = r.stats
           /\ cl_pc' = r.ended
    /\ UNCHANGED <<script, cl_input, cl_exit, cc_kind, cc_input, cc_output, cells_changed,
                   cc_runs, cc_exit, slugVars, priceVars, dedupVars, scrapeVars>>

\* main (254-269) and the end of the process: the statistics are printed
\* and main returns; {} makes main call sys.exit(1); an exception that
\* left process_csv is caught nowhere and ends the process with status 1.
CleanerExit ==
    /\ script = "clean_encoded_slugs.py"
    /\ cl_pc \in {"stats", "empty", "raised"}
    /\ cl_exit = Running
    /\ cl_exit' = IF cl_pc = "stats" THEN 0 ELSE 1
    /\ UNCHANGED <<script, cl_input, cl_output, cl_stats, cl_pc,
                   cc_kind, cc_input, cc_output, cells_changed, cc_runs, cc_exit,
                   slugVars, priceVars, dedupVars, scrapeVars>>

CleanNext == ProcessCsv \/ CleanerExit

\* The variables of a tool that is not running.
SlugIdle ==
    /\ input_file = <<>>
    /\ output_file = NoFile
    /\ stats = None
    /\ duplicates_fixed = <<>>
    /\ runs = 0
    /\ input_kind = None
    /\ sl_written = {}
    /\ sl_exit = Running

PriceIdle ==
    /\ arg_price_str = <<>>
    /\ arg_multiplier = 1
    /\ price_fn = None
    /\ price_out = None

LoopIdle ==
    /\ keywords = <<>>
    /\ total_results_limit = 0
    /\ kw_pos = 1
    /\ unique_products = <<>>
    /\ category_descriptions = <<>>
    /\ first_seen = <<>>
    /\ desc_calls = <<>>
    /\ sc_pc = None
    /\ output_csv = NoFile

ScrapeIdle == LoopIdle /\ EbaySearchIdle /\ AliSearchIdle

DedupIdle ==
    /\ fs = <<>>
    /\ dd_pc = None
    /\ newest_file = None
    /\ older_files = <<>>
    /\ rd_combined_data = <<>>
    /\ removal_stats = <<>>
    /\ self_df_final = Unset
    /\ dd_exit = Running

CleanIdle ==
    /\ CleanCsvIdle
    /\ cl_input = Absent
    /\ cl_output = NoFile
    /\ cl_stats = None
    /\ cl_pc = None
    /\ cl_exit = Running

InitSlug ==
    /\ script = "fix_duplicate_slugs.py"
    /\ SlugInit /\ PriceIdle /\ DedupIdle /\ ScrapeIdle /\ CleanIdle
NextSlug == SlugNext
SpecSlug == InitSlug /\ [][NextSlug]_vars

InitPrice ==
    script = "price" /\ PriceInit /\ SlugIdle /\ DedupIdle /\ ScrapeIdle /\ CleanIdle
NextPrice == PriceNext
SpecPrice == InitPrice /\ [][NextPrice]_vars

InitDedup ==
    /\ script = "excel_csv_deduplicator"
    /\ DedupInit /\ SlugIdle /\ PriceIdle /\ ScrapeIdle /\ CleanIdle
NextDedup == DedupNext
SpecDedup == InitDedup /\ [][NextDedup]_vars

InitScrape ==
    script = "scraper" /\ ScrapeInit /\ SlugIdle /\ PriceIdle /\ DedupIdle /\ CleanIdle

InitClean ==
    /\ script = "clean_encoded_slugs.py"
    /\ CleanInit /\ SlugIdle /\ PriceIdle /\ DedupIdle /\ ScrapeIdle

InitCleanCsv ==
    /\ script = "clean_csv.py"
    /\ CleanCsvInit /\ SlugIdle /\ PriceIdle /\ DedupIdle /\ ScrapeIdle
    /\ cl_input = Absent /\ cl_output = NoFile /\ cl_stats = None /\ cl_pc = None
    /\ cl_exit = Running
NextCleanCsv == CleanCsvNext
SpecCleanCsv == InitCleanCsv /\ [][NextCleanCsv]_vars
NextClean == CleanNext
SpecClean == InitClean /\ [][NextClean]_vars
NextScrape == ScrapeNext
SpecScrape == InitScrape /\ [][NextScrape]_vars

InitEbaySearch ==
    /\ script = "EbayScraper.search"
    /\ EbaySearchInit /\ AliSearchIdle /\ LoopIdle
    /\ SlugIdle /\ PriceIdle /\ DedupIdle /\ CleanIdle
NextEbaySearch == EbaySearchNext
SpecEbaySearch == InitEbaySearch /\ [][NextEbaySearch]_vars

InitAliSearch ==
    /\ script = "AliExpressFixedScraper.search"
    /\ AliSearchInit /\ EbaySearchIdle /\ LoopIdle
    /\ SlugIdle /\ PriceIdle /\ DedupIdle /\ CleanIdle
NextAliSearch == AliSearchNext
SpecAliSearch == InitAliSearch /\ [][NextAliSearch]_vars

\* The two tools that drop duplicates: the deduplicator and the scrapers.
InitDrop == InitDedup \/ InitScrape
NextDrop == DedupNext \/ ScrapeNext
SpecDrop == InitDrop /\ [][NextDrop]_vars

\* Each script is a process of its own: a behaviour is a run of one of them.
Init ==
    \/ InitSlug \/ InitPrice \/ InitDedup \/ InitScrape \/ InitClean \/ InitCleanCsv
    \/ InitEbaySearch \/ InitAliSearch
Next ==
    \/ SlugNext \/ PriceNext \/ DedupNext \/ ScrapeNext \/ CleanNext \/ CleanCsvNext
    \/ EbaySearchNext \/ AliSearchNext
Spec == Init /\ [][Next]_vars

(***************************************************************************)
(* Claims about the slug deduplicator (SpecSlug).                          *)
(***************************************************************************)
\* The slugs verify_results (test_deduplicator.py 37-64) collects from a
\* file: generate_slug(title) of every data row with more than one column.
SlugsOf(file) ==
    LET data == SelectSeq(Tail(file), LAMBDA row : Len(row) > 1)
    IN  [i \in 1..Len(data) |-> generate_slug(data[i][2])]

PairwiseDistinct(s) == \A i, j \in 1..Len(s) : i # j => s[i] # s[j]

\* C1: after find_and_fix_duplicates the slugs of the data rows of the
\* output file are pairwise distinct, for every sequence of rows.
C1_OutputSlugsDistinct ==
    runs = 1 => PairwiseDistinct(SlugsOf(output_file))

\* C2: find_and_fix_duplicates keeps every row: as many data rows are
\* written to the output file as were read from the input file, also when
\* rows have fewer than two columns.
C2_RowCountKept ==
    runs = 1 => /\ Len(output_file) = Len(input_file)
                /\ Len(output_file) - 1 = stats.total_rows

\* C3: a second run, on the output of the first, applies no fix and leaves
\* every row unchanged (input_file is then the first run's output).
C3_SecondRunFixesNothing ==
    runs = 2 => /\ stats.total_fixes_applied = 0
                /\ output_file = input_file

\* The data rows of a file that have a title, in their order; the output
\* file holds one row for each of them.
TitledRows(file) == SelectSeq(Tail(file), LAMBDA row : Len(row) > 1)

\* longer is shorter followed by one or more characters of the class P.
ExtendsBy(longer, shorter, P) ==
    /\ Len(longer) > Len(shorter)
    /\ SubSeq(longer, 1, Len(shorter)) = shorter
    /\ \A k \in (Len(shorter) + 1)..Len(longer) : longer[k] \in P

\* The characters the model's titles are made of.
TitleChars == UNION {Range(t) : t \in Titles}

\* The i-th and j-th titled rows of the input have the same slug, and the
\* later of the two is written with the identifier appended to its title.
DetectedAsDuplicates(i, j) ==
    LET rows == TitledRows(input_file)
        later == IF i < j THEN j ELSE i
    IN  /\ generate_slug(rows[i][2]) = generate_slug(rows[j][2])
        /\ TitledRows(output_file)[later][2] = AppendId(rows[later][2], rows[later][1])

\* C14 as stated: a suffix made only of characters outside [a-z0-9A-Z],
\* whitespace and '-' does not change the slug, and two titles that differ
\* only by such a suffix are detected as duplicates.
C14_SuffixOutsideAsciiAlnum ==
    runs = 1 =>
       LET rows == TitledRows(input_file)
       IN  \A i, j \in 1..Len(rows) :
              ExtendsBy(rows[j][2], rows[i][2],
                        TitleChars \ (LowerAlnum \cup Upper \cup Whitespace \cup {Hyphen}))
              => DetectedAsDuplicates(i, j)

\* C14, amended: a suffix made only of characters whose lower-case form is
\* outside [a-z0-9], whitespace and '-' does not change the slug, and two
\* titles that differ only by such a suffix are detected as duplicates.
C14_SuffixOfRemovedChars ==
    runs = 1 =>
       LET rows == TitledRows(input_file)
       IN  \A i, j \in 1..Len(rows) :
              ExtendsBy(rows[j][2], rows[i][2],
                        {c \in TitleChars : ~KeepSlugChar(LowerChar(c))})
              => DetectedAsDuplicates(i, j)

C14_Witness ==
    /\ runs = 1
    /\ Len(TitledRows(input_file)) = 2
    /\ TitledRows(input_file)[1][2] = <<"a">>
    /\ TitledRows(input_file)[2][2] = <<"a", "!">>
    /\ TitledRows(output_file)[2][2] = AppendId(<<"a", "!">>, TitledRows(input_file)[2][1])

\* s is made of a-z, 0-9 and '-' only, neither starts nor ends with a
\* hyphen and has no two hyphens in a row.
IsCleanSlug(s) ==
    /\ \A k \in 1..Len(s) : s[k] \in LowerAlnum \cup {Hyphen}
    /\ s # <<>> => (s[1] # Hyphen /\ s[Len(s)] # Hyphen)
    /\ \A k \in 1..(Len(s) - 1) : ~(s[k] = Hyphen /\ s[k + 1] = Hyphen)

\* C15: for every title generate_slug returns a string of a-z, 0-9 and
\* '-' with no leading, trailing or doubled hyphen, and the same slug for
\* the same title: the slug recorded with a fix is the slug of its title,
\* and a row that repeats the title of an earlier row is fixed.
C15_SlugShape ==
    runs = 1 =>
       LET rows == TitledRows(input_file)
       IN  /\ \A i \in 1..Len(rows) : IsCleanSlug(generate_slug(rows[i][2]))
           /\ \A k \in 1..Len(duplicates_fixed) :
                 /\ IsCleanSlug(duplicates_fixed[k].slug)
                 /\ duplicates_fixed[k].slug =
                       generate_slug(duplicates_fixed[k].original_title)
           /\ \A i, j \in 1..Len(rows) :
                 (i < j /\ rows[i][2] = rows[j][2])
                 => \E k \in 1..Len(duplicates_fixed) :
                       duplicates_fixed[k].original_title = rows[j][2]

C15_Witness ==
    /\ runs = 1
    /\ \E i \in 1..Len(TitledRows(input_file)) :
          /\ TitledRows(input_file)[i][2] = <<"-", "b", " ">>
          /\ generate_slug(TitledRows(input_file)[i][2]) = <<"b">>
    /\ \E i \in 1..Len(TitledRows(input_file)) :
          /\ TitledRows(input_file)[i][2] = <<"a", " ", "-", " ", "1">>
          /\ generate_slug(TitledRows(input_file)[i][2]) = <<"a", "-", "1">>

(***************************************************************************)
(* Claims about the tools that drop duplicates (SpecDrop, SpecDedup).      *)
(***************************************************************************)
KeyOf(r) == r[2]

KeysOfRows(rows) == {KeyOf(rows[i]) : i \in 1..Len(rows)}

\* The frames _process_dataframe produced that are still to be seen: the
\* sheets of the processed file after a successful run, and self.df_final.
FinalFrames ==
    (IF dd_pc = "done" /\ fs[newest_file] # Absent
     THEN {fs[newest_file].sheets[i].rows : i \in 1..Len(fs[newest_file].sheets)}
     ELSE {})
    \cup (IF self_df_final # Unset THEN {self_df_final.rows} ELSE {})

\* C4: in drop mode no two surviving records share the dedup key: the rows
\* of every final frame of _process_dataframe differ pairwise in the
\* compared column, and no two entries of unique_products, nor two rows of
\* output.csv, have the same title.
C4_SurvivorsHaveDistinctKeys ==
    /\ script = "excel_csv_deduplicator" =>
          \A rows \in FinalFrames : PairwiseDistinct([i \in 1..Len(rows) |-> KeyOf(rows[i])])
    /\ script = "scraper" =>
          /\ PairwiseDistinct([i \in 1..Len(unique_products) |-> unique_products[i].title])
          /\ sc_pc = "done" =>
                PairwiseDistinct([i \in 1..Len(output_csv) |-> output_csv[i].Title])

C4_Witness ==
    /\ dd_pc = "done"
    /\ \E i \in 1..Len(removal_stats) : removal_stats[i].internal_duplicates_removed > 0
    /\ fs[newest_file] # Absent

\* Index of the first row of rows with the key of r.
FirstIndex(rows, r) == CHOOSE i \in 1..Len(rows) :
    KeyOf(rows[i]) = KeyOf(r) /\ \A j \in 1..(i - 1) : KeyOf(rows[j]) # KeyOf(r)

\* final holds, in their original order, only rows that are the first of
\* their key in orig.
FirstOccurrencesInOrder(final, orig) ==
    /\ \A k \in 1..Len(final) :
          /\ KeyOf(final[k]) \in KeysOfRows(orig)
          /\ final[k] = orig[FirstIndex(orig, final[k])]
    /\ \A k, l \in 1..Len(final) :
          k < l => FirstIndex(orig, final[k]) < FirstIndex(orig, final[l])

\* C5: in drop mode the first occurrence of a key wins: a surviving record
\* is the first record met with its key (in the scrapers with the category
\* and descriptions of the keyword whose search returned it), later
\* records of the key change nothing, and survivors keep the first-seen
\* order.  After a successful run the original sheets are those of the
\* backup.
C5_FirstOccurrenceWins ==
    /\ (script = "excel_csv_deduplicator" /\ dd_pc = "done" /\ fs[newest_file] # Absent) =>
          \A i \in 1..Len(fs[newest_file].sheets) :
             \E j \in 1..Len(fs[BackupPath].sheets) :
                /\ fs[BackupPath].sheets[j].name = fs[newest_file].sheets[i].name
                /\ FirstOccurrencesInOrder(fs[newest_file].sheets[i].rows,
                                           fs[BackupPath].sheets[j].rows)
    /\ script = "scraper" =>
          /\ Len(unique_products) = Len(first_seen)
          /\ \A i \in 1..Len(unique_products) :
                /\ unique_products[i].title = first_seen[i].title
                /\ unique_products[i].price = first_seen[i].price
                /\ unique_products[i].category = first_seen[i].keyword
                /\ unique_products[i].short_description =
                      DescOf(category_descriptions, first_seen[i].keyword).short
                /\ unique_products[i].description =
                      DescOf(category_descriptions, first_seen[i].keyword).full
          /\ sc_pc = "done" =>
                /\ Len(output_csv) = Len(unique_products)
                /\ \A i \in 1..Len(output_csv) :
                      /\ output_csv[i].Title = unique_products[i].title
                      /\ output_csv[i].Category = unique_products[i].category

C5_Witness ==
    /\ dd_pc = "done"
    /\ fs[newest_file] # Absent
    /\ \E i \in 1..Len(fs[newest_file].sheets), j \in 1..Len(removal_stats) :
          /\ fs[newest_file].sheets[i].rows # <<>>
          /\ removal_stats[j].sheet = fs[newest_file].sheets[i].name
          /\ removal_stats[j].internal_duplicates_removed > 0

\* The rows, as the combined frame holds them, of the sheets of file f
\* that can be read: those before the first sheet that cannot.
ReadableRows(f) ==
    IF ~f.ok THEN {}
    ELSE UNION {{<<f.sheets[i].rows[k][1], f.sheets[i].col, f.sheets[i].rows[k][2]>> :
                    k \in 1..Len(f.sheets[i].rows)} :
                i \in {n \in 1..Len(f.sheets) : \A m \in 1..n : f.sheets[m].ok}}

OtherFiles == Range(FoundFiles) \ {newest_file}

\* The sheets process_newest_file wrote to the path of the processed file
\* (none when it did not get that far or restored the backup).
WrittenSheets ==
    IF /\ dd_pc \in {"done", "aborted"}
       /\ newest_file # None
       /\ fs[BackupPath] # Absent
       /\ fs[newest_file] # Absent
       /\ fs[newest_file].ok
    THEN fs[newest_file].sheets
    ELSE <<>>

Loaded == dd_pc \in {"loaded", "done"} \/ (dd_pc = "aborted" /\ newest_file # None)

\* No row written to the processed file has, in the compared column, a
\* value that the column of that name has in a readable sheet of another
\* file.
NoWrittenKeyInOtherFile ==
    \A i \in 1..Len(WrittenSheets) :
        \A k \in 1..Len(WrittenSheets[i].rows) :
            \A f \in OtherFiles :
                \A r \in ReadableRows(fs[f]) :
                    ~(r[2] = WrittenSheets[i].col /\ r[3] = WrittenSheets[i].rows[k][2])

RowsWritten(name) ==
    IF \E i \in 1..Len(WrittenSheets) : WrittenSheets[i].name = name
    THEN Len((CHOOSE sh \in Range(WrittenSheets) : sh.name = name).rows)
    ELSE 0

\* C7: for every sheet or file the deduplicator processed, original_rows =
\* internal_duplicates_removed + external_duplicates_removed +
\* remaining_rows, no count is negative, and remaining_rows is the number
\* of rows actually written.
C7_CountsConsistent ==
    dd_pc = "done" =>
       \A i \in 1..Len(removal_stats) :
          LET st == removal_stats[i]
          IN  /\ st.original_rows = st.internal_duplicates_removed
                                    + st.external_duplicates_removed + st.remaining_rows
              /\ st.original_rows >= 0
              /\ st.internal_duplicates_removed >= 0
              /\ st.external_duplicates_removed >= 0
              /\ st.remaining_rows >= 0
              /\ st.remaining_rows = RowsWritten(st.sheet)

(***************************************************************************)
(* Claims about the price parsers (SpecPrice).                             *)
(***************************************************************************)
\* The amount an end of a range denotes: an optional "$", then a plain
\* decimal number.
AmountValue(a) == ParseFloat(IF a # <<>> /\ Head(a) = "$" THEN Tail(a) ELSE a)

\* C8: for a range "<A> to <B>" of parseable amounts every price parser
\* of the repository returns max(A, B) * multiplier with two decimals
\* ("$15.74 to $150.00" gives "150.00" with multiplier 1.0).
C8_RangeKeepsLarger ==
    price_fn # None =>
        \A a \in RangeEnds \cup {<<"$", "1", "5", ".", "7", "4">>},
           b \in RangeEnds \cup {<<"$", "1", "5", "0", ".", "0", "0">>} :
            (/\ arg_price_str = a \o TO \o b
             /\ AmountValue(a).ok
             /\ AmountValue(b).ok)
            => price_out = FormatPrice(IF NumLess(AmountValue(a), AmountValue(b))
                                       THEN AmountValue(b) ELSE AmountValue(a),
                                       arg_multiplier)

IsSeparatorString(s) == \A i \in 1..Len(s) : s[i] \in Digits \cup {".", ","}

DigitsOf(s) == SelectSeq(s, LAMBDA c : c \in Digits)

\* Index of the rightmost '.' or ',' of s.
LastSeparator(s) ==
    CHOOSE i \in 1..Len(s) :
        /\ s[i] \in {".", ","}
        /\ \A j \in (i + 1)..Len(s) : s[j] \notin {".", ","}

\* The number s denotes when its rightmost separator is the decimal point
\* and every other separator is dropped.
RightmostIsDecimal(s) ==
    LET p == LastSeparator(s)
    IN  [ok |-> TRUE, neg |-> FALSE, mant |-> DigitsToNat(DigitsOf(s)),
         frac |-> Len(DigitsOf(SubSeq(s, p + 1, Len(s))))]

\* s with the rightmost of its separators as the decimal point: the other
\* separator character is dropped wherever it occurs.
WithRightmostAsDecimal(s) ==
    LET dec == s[LastSeparator(s)]
        kept == SelectSeq(s, LAMBDA c : c \in Digits \cup {dec})
    IN  [i \in 1..Len(kept) |-> IF kept[i] = dec THEN "." ELSE kept[i]]

\* C9: with both '.' and ',' present, the rightmost of the two is the
\* decimal separator and every occurrence of the other is removed as a
\* thousands separator: the result is the price of the string so rewritten
\* (the number RightmostIsDecimal gives when the decimal separator occurs
\* once, "0.00" when the rewritten string is no number); "1.234,56" and
\* "1,234.56" both give "1234.56".
C9_RightmostSeparatorIsDecimal ==
    (/\ price_fn = "ali_clean_price"
     /\ IsSeparatorString(arg_price_str)
     /\ "." \in Range(arg_price_str)
     /\ "," \in Range(arg_price_str))
    => LET dec == arg_price_str[LastSeparator(arg_price_str)]
           once == Cardinality({i \in 1..Len(arg_price_str) : arg_price_str[i] = dec}) = 1
           value == ParseFloat(WithRightmostAsDecimal(arg_price_str))
       IN  /\ price_out = IF value.ok THEN FormatPrice(value, arg_multiplier) ELSE ZERO_PRICE
           /\ (once /\ DigitsOf(arg_price_str) # <<>>) =>
                 price_out = FormatPrice(RightmostIsDecimal(arg_price_str), arg_multiplier)
           /\ (/\ arg_multiplier = 1
               /\ arg_price_str \in {<<"1", ".", "2", "3", "4", ",", "5", "6">>,
                                     <<"1", ",", "2", "3", "4", ".", "5", "6">>})
              => price_out = <<"1", "2", "3", "4", ".", "5", "6">>

C9_Witness ==
    /\ price_fn = "ali_clean_price"
    /\ arg_price_str = <<"1", ".", "2", "3", "4", ",", "5", "6">>
    /\ arg_multiplier = 1
    /\ price_out = <<"1", "2", "3", "4", ".", "5", "6">>

C11_EmptyGivesZero ==
    (/\ price_fn # None
     /\ \/ arg_price_str = <<>>
        \/ StripWs(arg_price_str) = <<>>
        \/ arg_price_str = NA)
    => price_out = ZERO_PRICE

\* A string of digits with at most one '.', and at least one digit.
IsDecimalString(s) ==
    /\ \A i \in 1..Len(s) : s[i] \in Digits \cup {"."}
    /\ Cardinality({i \in 1..Len(s) : s[i] = "."}) <= 1
    /\ \E i \in 1..Len(s) : s[i] \in Digits

\* One or more digits, a '.', and exactly two digits: no sign, nothing else.
IsTwoDecimals(out) ==
    /\ Len(out) >= 4
    /\ out[Len(out) - 2] = "."
    /\ \A i \in 1..Len(out) : i # Len(out) - 2 => out[i] \in Digits

\* The number of cents a two-decimal string denotes.
CentsOf(out) == DigitsToNat(SelectSeq(out, LAMBDA c : c \in Digits))

\* C12: for a valid decimal string s and a multiplier m > 0 the result of
\* every price parser is numeric, not negative, has exactly two digits
\* after the point, and is s * m rounded to cents: no other number of
\* cents is nearer to s * m (the strings are those of up to MaxPriceLen
\* characters, of which none gives a product half-way between two cents).
C12_TwoDecimalsOfProduct ==
    (price_fn # None /\ IsDecimalString(arg_price_str) /\ arg_multiplier > 0)
    => /\ IsTwoDecimals(price_out)
       /\ LET digs == DigitsOf(arg_price_str)
              dot == {i \in 1..Len(arg_price_str) : arg_price_str[i] = "."}
              frac == IF dot = {} THEN 0
                      ELSE Len(arg_price_str) - (CHOOSE i \in dot : TRUE)
              \* s * m * 100 = exact / scale
              exact == DigitsToNat(digs) * arg_multiplier * 100
              scale == Pow10(frac)
              diff == CentsOf(price_out) * scale - exact
          IN  2 * (IF diff < 0 THEN 0 - diff ELSE diff) <= scale

C12_Witness ==
    /\ price_fn = "ebay_clean_price"
    /\ arg_price_str = <<"1", ".", "2", "2", "2">>
    /\ arg_multiplier = 3
    /\ price_out = <<"3", ".", "6", "7">>

\* The symbols parser fn removes and the range separators it splits on.
SymbolsOf(fn) ==
    IF fn = "process_price" THEN <<DOLLAR, COMMA>>
    ELSE IF fn = "ebay_clean_price" THEN <<POUND, DOLLAR, COMMA>>
    ELSE <<US_DOLLAR, DOLLAR, COMMA>>

SeparatorsOf(fn) == IF fn = "broken_clean_price" THEN <<DASH, TO>> ELSE <<TO>>

\* What is left of s for float() is no number: of s without blanks around
\* it and without the symbols, or, when s is a range, of one of its ends.
Malformed(fn, s) ==
    LET found == SelectSeq(SeparatorsOf(fn), LAMBDA sep : Contains(StripWs(s), sep))
        ends == IF found = <<>> THEN <<StripWs(s)>> ELSE Split(StripWs(s), Head(found))
    IN  \E i \in 1..Len(ends) : ~ParseFloat(RemoveSymbols(ends[i], SymbolsOf(fn))).ok

\* C13: a malformed price never raises: when what is left of the input is
\* no number, the AliExpress clean_price returns exactly "0.00", and
\* process_price, the eBay clean_price and the older AliExpress
\* clean_price return exactly the original input string, blanks around it
\* included, also for a malformed range.
C13_MalformedGivesFallback ==
    /\ (/\ price_fn = "ali_clean_price"
        /\ ~ParseFloat(DisambiguateSeparators(KeepPriceChars(arg_price_str))).ok)
       => price_out = ZERO_PRICE
    /\ (/\ price_fn \in {"process_price", "ebay_clean_price", "broken_clean_price"}
        /\ Malformed(price_fn, arg_price_str))
       => price_out = arg_price_str

(***************************************************************************)
(* The two slug tools together: the slug deduplicator and the encoded-slug *)
(* cleaner.                                                                *)
(***************************************************************************)
InitSlugTools == InitSlug \/ InitClean
NextSlugTools == SlugNext \/ CleanNext
SpecSlugTools == InitSlugTools /\ [][NextSlugTools]_vars

\* The rows of the cleaner's input that DictReader yields.
CleanerRecords == SelectSeq(cl_input.rows, LAMBDA r : r # <<>>)

\* C16: no record keeps an empty slug when its title or slug was not empty.
\* After a run of find_and_fix_duplicates every written row with a non-empty
\* title has a non-empty slug, and after a run of the cleaner that returned
\* its statistics every record whose slug was non-empty is written with a
\* non-empty slug.
C16_SlugNeverEmpty ==
    /\ (script = "fix_duplicate_slugs.py" /\ runs = 1) =>
          \A k \in 1..Len(TitledRows(output_file)) :
              LET title == TitledRows(output_file)[k][2]
              IN  title # <<>> => generate_slug(title) # <<>>
    /\ (script = "clean_encoded_slugs.py" /\ cl_pc = "stats") =>
          \A k \in 1..Len(CleanerRecords) :
              RowGet(cl_input.header, CleanerRecords[k], "slug", <<>>) # <<>>
                  => RowGet(cl_input.header, cl_output[k + 1], "slug", <<>>) # <<>>

(***************************************************************************)
(* The two tools that need a column of their input: the deduplicator and   *)
(* the encoded-slug cleaner.                                               *)
(***************************************************************************)
InitColumnTools == InitDedup \/ InitClean
NextColumnTools == DedupNext \/ CleanNext
SpecColumnTools == InitColumnTools /\ [][NextColumnTools]_vars

\* The reference frame lacks the column the newest file is compared on: the
\* first sheet of the newest file that has rows can be read, as can the
\* sheets before it, and its second column is no column of combined_data.
ComparedColumnAbsent ==
    /\ dd_pc = "loaded"
    /\ fs[newest_file].ok
    /\ rd_combined_data # <<>>
    /\ \E k \in 1..Len(fs[newest_file].sheets) :
          LET sh == fs[newest_file].sheets[k]
          IN  /\ sh.ok /\ sh.rows # <<>>
              /\ sh.col \notin CombinedColumns(rd_combined_data)
              /\ \A j \in 1..(k - 1) : fs[newest_file].sheets[j].ok

\* The cleaner's input can be read and has no 'slug' column.
SlugColumnAbsent ==
    /\ cl_pc = "start"
    /\ cl_input # Absent
    /\ cl_input.readable /\ cl_input.sniff_ok
    /\ "slug" \notin Range(cl_input.header)

\* C17: a missing required column aborts the run before anything is written.
\* The step that processes the newest file when the reference frame lacks the
\* compared column ends in the abort and leaves every file of the folder as
\* it was (no backup left, the newest file at its path with its content); the
\* cleaner's step on an input without 'slug' column returns {} and creates no
\* output file.
C17_MissingColumnWritesNothing ==
    [][/\ ComparedColumnAbsent => (dd_pc' = "aborted" /\ fs' = fs)
       /\ SlugColumnAbsent => (cl_pc' = "empty" /\ cl_output' = NoFile)]_vars

(***************************************************************************)
(* The three tools that are started on a file or a folder.                 *)
(***************************************************************************)
InitFileTools == InitSlug \/ InitDedup \/ InitClean
NextFileTools == SlugNext \/ DedupNext \/ CleanNext
SpecFileTools == InitFileTools /\ [][NextFileTools]_vars

\* The deduplicator's run was aborted because the file to deduplicate could
\* not be read (the failed run put it back at its path).
NewestFileUnreadable ==
    /\ dd_pc = "aborted"
    /\ newest_file # None
    /\ fs[newest_file] = UnreadableCsv
    /\ fs[BackupPath] = Absent

\* C18: an input that does not exist or cannot be read ends the process with
\* a non-zero exit status and no file written; a successful run ends with
\* status 0.  Stated for the ended process of each tool: the slug
\* deduplicator, the Excel/CSV deduplicator and the encoded-slug cleaner.
C18_IoFailureIsFatal ==
    /\ (script = "fix_duplicate_slugs.py" /\ sl_exit # Running) =>
          IF input_kind = "file" THEN sl_exit = 0
          ELSE sl_exit # 0 /\ sl_written = {}
    /\ (script = "excel_csv_deduplicator" /\ dd_exit # Running) =>
          /\ (dd_pc = "nofolder" \/ NewestFileUnreadable) => dd_exit # 0
          /\ dd_pc = "done" => dd_exit = 0
    /\ (script = "clean_encoded_slugs.py" /\ cl_exit # Running) =>
          IF cl_input = Absent \/ ~cl_input.readable
          THEN cl_exit # 0 /\ cl_output = NoFile
          ELSE cl_pc = "stats" => cl_exit = 0

\* A file every sheet of which can be read, and the rows a file holds as
\* rows of the combined frame.
FullyReadable(file) ==
    file.ok /\ \A k \in 1..Len(file.sheets) : file.sheets[k].ok
RowsOfFile(file) ==
    UNION {{<<file.sheets[k].rows[i][1], file.sheets[k].col, file.sheets[k].rows[i][2]>> :
               i \in 1..Len(file.sheets[k].rows)} : k \in 1..Len(file.sheets)}

\* C19: once the older files are loaded, the reference frame holds exactly
\* the rows of the older files that could be read: every row of every file
\* read in full, and no row of a file the reading of which failed.
C19_UnreadableFileContributesNothing ==
    (script = "excel_csv_deduplicator" /\ dd_pc = "loaded") =>
        Range(rd_combined_data) =
            UNION {RowsOfFile(fs[older_files[k]]) :
                      k \in {j \in 1..Len(older_files) : FullyReadable(fs[older_files[j]])}}

\* process_csv has gone through the rows of an input that has a 'slug'
\* column.
CleanerRan ==
    /\ script = "clean_encoded_slugs.py"
    /\ cl_pc \in {"stats", "raised"}
    /\ cl_input # Absent
    /\ cl_input.readable /\ cl_input.sniff_ok
    /\ "slug" \in Range(cl_input.header)

\* C20: the cleaner's output has the records of the input (the lines that
\* are not blank), one for one and in their order; a record whose slug has no
\* %xx pattern is written as it was, and a record whose slug is URL-encoded
\* differs from the input in the 'slug' field only.
C20_OtherRowsPreserved ==
    CleanerRan =>
        /\ Len(cl_output) = Len(CleanerRecords) + 1
        /\ \A k \in 1..Len(CleanerRecords) :
              LET row == CleanerRecords[k]
                  written == cl_output[k + 1]
              IN  /\ Len(written) = Len(row)
                  /\ \A c \in 1..Len(row) :
                        (cl_input.header[c] # "slug"
                            \/ ~has_url_encoding(RowGet(cl_input.header, row, "slug", <<>>)))
                        => written[c] = row[c]

\* The cells of the rows of a CSV file.
CellsOf(rows) == UNION {Range(rows[r]) : r \in 1..Len(rows)}

\* C21: no cell that clean_text has cleaned holds the pattern '=-' or '-='.
\* Stated on the file clean_csv_file wrote in its first run.
C21_NoProblemPattern ==
    (script = "clean_csv.py" /\ cc_runs = 1) =>
        \A cell \in CellsOf(cc_output) :
            ~Contains(cell, <<EQUALS, Hyphen>>) /\ ~Contains(cell, <<Hyphen, EQUALS>>)

\* C30: clean_text is idempotent.  The second run of clean_csv_file, on the
\* file the first run wrote, changes no cell: it counts zero modified cells
\* and writes the rows it read.
C30_CleanTextIdempotent ==
    (script = "clean_csv.py" /\ cc_runs = 2) =>
        /\ cells_changed = 0
        /\ cc_output = cc_input

\* The slug the cleaner read in record k and the slug it wrote for it.
SlugRead(k) == RowGet(cl_input.header, CleanerRecords[k], "slug", <<>>)
SlugWritten(k) == RowGet(cl_input.header, cl_output[k + 1], "slug", <<>>)

\* Strings made only of a-z, 0-9 and '-'.
IsLowerSlugString(s) == Range(s) \subseteq Range(LowerLetters) \cup Digits \cup {Hyphen}

\* C22 as stated: after process_csv no slug of the output holds a %xx
\* pattern, and every slug that held one is written as a string of a-z, 0-9
\* and '-'.
C22_NoEncodingLeft ==
    (script = "clean_encoded_slugs.py" /\ cl_pc = "stats") =>
        \A k \in 1..Len(CleanerRecords) :
            /\ ~has_url_encoding(SlugWritten(k))
            /\ has_url_encoding(SlugRead(k)) => IsLowerSlugString(SlugWritten(k))

\* The slugs of the titles of the rows, and whether row k has the slug of
\* an earlier row.
SlugsOfRows(rows) == [k \in 1..Len(rows) |-> generate_slug(rows[k][2])]
HasEarlierSameSlug(slugs, k) == \E j \in 1..(k - 1) : slugs[j] = slugs[k]

\* C23: find_and_fix_duplicates writes the header as it is and the rows that
\* have a title in their order; a row is written with the title
\* '<title> - <product_id>' and otherwise unchanged when an earlier row has
\* its slug, and unchanged when none has; total_fixes_applied is the number
\* of rows written with a new title.
C23_OnlyLaterDuplicatesRetitled ==
    (script = "fix_duplicate_slugs.py" /\ runs >= 1) =>
        LET rows == TitledRows(input_file)
            slugs == SlugsOfRows(rows)
        IN  /\ Head(output_file) = Head(input_file)
            /\ Len(Tail(output_file)) = Len(rows)
            /\ \A k \in 1..Len(rows) :
                  output_file[k + 1] =
                      IF HasEarlierSameSlug(slugs, k)
                      THEN [rows[k] EXCEPT ![2] = rows[k][2] \o <<" ", "-", " ">> \o rows[k][1]]
                      ELSE rows[k]
            /\ stats.total_fixes_applied =
                  Cardinality({k \in 1..Len(rows) : HasEarlierSameSlug(slugs, k)})

\* A run that retitled a row of three columns whose title differs from that
\* of the earlier row with its slug, and left the earlier row as it was.
C23_Witness ==
    /\ script = "fix_duplicate_slugs.py" /\ runs = 1
    /\ LET rows == TitledRows(input_file)
           slugs == SlugsOfRows(rows)
       IN  \E k \in 2..Len(rows) :
              /\ slugs[1] = slugs[k]
              /\ Len(rows[k]) = 3
              /\ rows[1][2] # rows[k][2]
              /\ output_file[k + 1][2] # rows[k][2]
              /\ output_file[2] = rows[1]

\* C29: generate_slug is idempotent: the slug of the slug of a title is the
\* slug of the title, for every title the tool reads and every slug it
\* records with a fix.
C29_GenerateSlugIdempotent ==
    (script = "fix_duplicate_slugs.py" /\ runs >= 1) =>
        LET rows == TitledRows(input_file)
        IN  /\ \A k \in 1..Len(rows) :
                  LET slug == generate_slug(rows[k][2])
                  IN  generate_slug(slug) = slug
            /\ \A k \in 1..Len(duplicates_fixed) :
                  generate_slug(duplicates_fixed[k].slug) = duplicates_fixed[k].slug

\* A run that read the title 'a - 1', in which whitespace and a hyphen meet,
\* and the title '-b ', which both differ from their slugs.
C29_Witness ==
    /\ script = "fix_duplicate_slugs.py" /\ runs = 1
    /\ LET rows == TitledRows(input_file)
       IN  /\ \E k \in 1..Len(rows) :
                 /\ rows[k][2] = <<"a", " ", "-", " ", "1">>
                 /\ generate_slug(rows[k][2]) # rows[k][2]
           /\ \E k \in 1..Len(rows) :
                 /\ rows[k][2] = <<"-", "b", " ">>
                 /\ generate_slug(generate_slug(rows[k][2])) = <<"b">>

\* C28: backup and restore in process_newest_file.  The step that processes
\* the newest file either succeeds, and then the backup path holds the
\* content the newest file had and a file is at the path of the newest file,
\* or fails, and then the content the newest file had is at its path again.
C28_BackupOrRestore ==
    [][(script = "excel_csv_deduplicator" /\ dd_pc = "loaded") =>
          /\ dd_pc' = "done" =>
                /\ fs'[BackupPath] = fs[newest_file]
                /\ fs'[newest_file] # Absent
          /\ dd_pc' = "aborted" => fs'[newest_file] = fs[newest_file]]_vars

\* C24: the total results limit.  For every limit from 0 on, the products
\* stored, and the rows written to output.csv, are never more than
\* total_results_limit, and a further keyword is searched only while fewer
\* products than the limit are stored.
C24_TotalLimitRespected ==
    script = "scraper" =>
        /\ Len(unique_products) <= total_results_limit
        /\ sc_pc = "done" => Len(output_csv) <= total_results_limit
        /\ (sc_pc = "loop" /\ 1 < kw_pos /\ kw_pos <= Len(keywords)) =>
               Len(unique_products) < total_results_limit

\* C26: category descriptions are generated once per category.
\* generate_category_descriptions is called at most once with each keyword,
\* also when the keyword list repeats the keyword or the call returned the
\* fallback pair, and every product stored, and every row written, carries
\* the pair cached for its category.
C26_DescriptionsOncePerKeyword ==
    script = "scraper" =>
        /\ \A i, j \in 1..Len(desc_calls) : desc_calls[i] = desc_calls[j] => i = j
        /\ \A kw \in Range(desc_calls) :
               Cardinality({d \in Range(category_descriptions) : d.keyword = kw}) = 1
        /\ \A i \in 1..Len(unique_products) :
               \E d \in Range(category_descriptions) :
                  /\ d.keyword = unique_products[i].category
                  /\ d.short = unique_products[i].short_description
                  /\ d.full = unique_products[i].description
        /\ sc_pc = "done" =>
               \A i \in 1..Len(output_csv) :
                  \E d \in Range(category_descriptions) :
                     /\ d.keyword = output_csv[i].Category
                     /\ d.short = output_csv[i].Short_description
                     /\ d.full = output_csv[i].description

\* The keyword list names the same keyword twice, both passes of the loop
\* ran, the one call returned the fallback pair and a product of each pass
\* was written with it.
C26_Witness ==
    /\ script = "scraper" /\ sc_pc = "done"
    /\ Len(keywords) = 2 /\ keywords[1] = keywords[2]
    /\ kw_pos = 2
    /\ Len(desc_calls) = 1
    /\ Len(output_csv) = 2
    /\ \A i \in 1..2 : output_csv[i].Short_description = "fallback short"
    /\ Len(first_seen) = 2

(***************************************************************************)
(* Claims about the search methods (SpecEbaySearch, SpecAliSearch).        *)
(***************************************************************************)
\* The number of the k-th request of the log among those to its site, and
\* the number of requests search may make to a site.
AttemptNumber(log, k) ==
    Cardinality({j \in 1..k : log[j].site = log[k].site})

AttemptsAllowed(site) == IF site = "desktop" THEN DesktopAttempts ELSE MobileAttempts

\* A failed attempt: an exception, a status other than 200, or the
\* interruption page.
FailedResponses == {"exception", "parse_raises", "status", "blocked"}

\* C25: the retry protocol of EbayScraper.search.  At most 3 requests go to
\* the desktop site and at most 2 to the mobile site; the mobile site is
\* asked only after the desktop search returned no items; when search has
\* returned, every failed attempt that was not the last one allowed for its
\* site is followed by another attempt at the same site; and the list
\* returned is empty when every attempt failed.
C25_RetryProtocol ==
    script = "EbayScraper.search" =>
        /\ RequestsTo(es_log, "desktop") <= DesktopAttempts
        /\ RequestsTo(es_log, "mobile") <= MobileAttempts
        /\ RequestsTo(es_log, "mobile") > 0 =>
               \A k \in 1..Len(es_log) :
                  es_log[k].site = "desktop" => es_log[k].response # "items"
        /\ es_pc = "returned" =>
               /\ \A k \in 1..Len(es_log) :
                     (/\ es_log[k].response \in FailedResponses
                      /\ AttemptNumber(es_log, k) < AttemptsAllowed(es_log[k].site))
                     => /\ k < Len(es_log)
                        /\ es_log[k + 1].site = es_log[k].site
               /\ (\A k \in 1..Len(es_log) : es_log[k].response \in FailedResponses)
                     => es_result = <<>>

\* C27: browser release.  Whenever a call of AliExpressFixedScraper.search
\* has ended, by a return or by an exception, every WebDriver created so
\* far has been quit.
C27_EveryDriverQuit ==
    (script = "AliExpressFixedScraper.search" /\ al_pc \in {"returned", "raised"}) =>
        \A d \in 1..Len(drivers) : drivers[d] = "quit"
====
